---- MODULE Spec2Model ----
(***************************************************************************)
(* A model of the cache layer of steam-recommender (src/lib/cache.ts over  *)
(* the SQLite schema of src/lib/db.ts).                                    *)
(*                                                                         *)
(* Every table is a set of rows (records).  Time is the value of SQLite's  *)
(* datetime('now'), which has a resolution of one second: `now' counts     *)
(* seconds, and two statements run within the same second read the same    *)
(* value.  A timestamp string 'YYYY-MM-DD HH:MM:SS' orders like the number *)
(* of seconds it denotes, so datetime(x) > datetime('now', '-N unit') is   *)
(* x > now - N * unit on seconds.                                          *)
(*                                                                         *)
(* Node runs each exported function of cache.ts to completion (the         *)
(* better-sqlite3 API is synchronous), so each function is one action.     *)
(* The route handlers are asynchronous: a handler gives way to the other   *)
(* requests at each await, between its calls of the cache.                 *)
(*                                                                         *)
(* The game statuses (src/lib/gameStatus.ts) live in the same store.  The  *)
(* store and the files of the data directory outlive a process; the flag   *)
(* `migrated' is a variable of the module and starts FALSE in each process.*)
(***************************************************************************)
EXTENDS Integers, Sequences, FiniteSets, TLC

VARIABLES
    now,              \* datetime('now'), in seconds
    ticks,            \* how many times the clock has advanced
    user_profiles,    \* table user_profiles
    user_games,       \* table user_games
    games,            \* table games
    game_genres,      \* table game_genres
    game_tags,        \* table game_tags
    recommendations,  \* table recommendations
    recommendation_feedback,  \* table recommendation_feedback
    game_statuses,    \* table game_statuses
    legacy,           \* the file game-statuses.json of the data directory
    bak,              \* the file game-statuses.json.bak
    migrated,         \* the flag `migrated' of gameStatus.ts, per process
    pid,              \* the number of the running process
    commits,          \* how many times the transaction `migrate' has committed
    db,               \* the variable `db' of db.ts, per process: the handle
    disk,             \* the data directory and the file of the store
    reading,          \* the read of the cache that is executing, statement by statement
    requests,         \* the requests of the recommendation route: where each handler is
    last              \* the most recent step: the call, its arguments, its result

vars == <<now, ticks, user_profiles, user_games, games, game_genres,
          game_tags, recommendations, recommendation_feedback, game_statuses,
          legacy, bak, migrated, pid, commits, db, disk, reading, requests,
          last>>

tables == <<user_profiles, user_games, games, game_genres, game_tags,
            recommendations>>

\* what the functions of the entity cache and of the recommendation cache
\* neither read nor write
statusStore == <<recommendation_feedback, game_statuses, legacy, bak, migrated,
                 pid, commits>>

\* the calls and the requests in progress
handlers == <<reading, requests>>

----------------------------------------------------------------------------
(* Bounds of the model                                                     *)

MaxTicks == 2

Users == {"u1", "u2"}

----------------------------------------------------------------------------
(* SQL values                                                              *)

\* SQL NULL / JS null for a text column
Null == "<null>"

\* seconds in the units of SQLite's date modifiers
SecondsPerMinute == 60
SecondsPerHour == 3600
SecondsPerDay == 86400

\* the windows of the freshness predicates
ProfileTtlHours == 24
LibraryTtlMinutes == 5
GameTtlDays == 7

\* datetime('now', '-N hours'), datetime('now', '-N minutes'), ...
DatetimeNowMinus(n, unit) == now - n * unit

\* an expiry counted in minutes
DatetimeNowPlusMinutes(h) == now + h * SecondsPerMinute

\* datetime('now', '+' || h || ' hours')
DatetimeNowPlusHours(h) == now + h * SecondsPerHour

----------------------------------------------------------------------------
(* The handle of the store                                                 *)

\* let db = null
NoHandle == [open |-> FALSE, foreign_keys |-> FALSE]

\* no data directory yet; the journal mode and the tables are kept in the
\* file of the store
NoStore == [dir |-> FALSE, wal |-> FALSE, schema |-> FALSE]

\* the statement of getDb that throws, if any
DbFaults == {"none", "mkdir", "open", "journal_mode", "foreign_keys", "exec"}

\* a getDb that has no variable db to return: every call opens the store
GetDbEveryCall(h, d, fault) ==
    IF ~d.dir /\ fault = "mkdir"
    THEN [db |-> h, disk |-> d, threw |-> TRUE, ran |-> {}]
    ELSE IF fault = "none"
    THEN [db |-> [open |-> TRUE, foreign_keys |-> TRUE],
          disk |-> [dir |-> TRUE, wal |-> TRUE, schema |-> TRUE],
          threw |-> FALSE,
          ran |-> {"open", "journal_mode", "foreign_keys", "exec"}]
    ELSE [db |-> h, disk |-> [d EXCEPT !.dir = TRUE], threw |-> TRUE, ran |-> {}]

\* getDb(): if (db) return db; mkdirSync; db = new Database(DB_PATH);
\* db.pragma('journal_mode = WAL'); db.pragma('foreign_keys = ON');
\* db.exec(CREATE TABLE IF NOT EXISTS ...); return db.  The statement named
\* by fault throws, and what ran before it stays done (ran).
GetDb(h, d, fault) ==
    IF h.open THEN [db |-> h, disk |-> d, threw |-> FALSE, ran |-> {}]
    ELSE IF ~d.dir /\ fault = "mkdir"
    THEN [db |-> h, disk |-> d, threw |-> TRUE, ran |-> {}]
    ELSE LET d1 == [d EXCEPT !.dir = TRUE]
             h1 == [open |-> TRUE, foreign_keys |-> FALSE]
             d2 == [d1 EXCEPT !.wal = TRUE]
             h2 == [h1 EXCEPT !.foreign_keys = TRUE]
             d3 == [d2 EXCEPT !.schema = TRUE]
         IN IF fault = "open"
            THEN [db |-> h, disk |-> d1, threw |-> TRUE, ran |-> {}]
            ELSE IF fault = "journal_mode"
            THEN [db |-> h1, disk |-> d1, threw |-> TRUE, ran |-> {"open"}]
            ELSE IF fault = "foreign_keys"
            THEN [db |-> h1, disk |-> d2, threw |-> TRUE,
                  ran |-> {"open", "journal_mode"}]
            ELSE IF fault = "exec"
            THEN [db |-> h2, disk |-> d2, threw |-> TRUE,
                  ran |-> {"open", "journal_mode", "foreign_keys"}]
            ELSE [db |-> h2, disk |-> d3, threw |-> FALSE,
                  ran |-> {"open", "journal_mode", "foreign_keys", "exec"}]

\* a call of getDb on its own, as the first statement of any function of
\* cache.ts or gameStatus.ts makes it; ret: the handle returned, with what is
\* enabled on it and whether the tables exist
getDb(fault) ==
    LET r == GetDb(db, disk, fault)
    IN /\ db' = r.db
       /\ disk' = r.disk
       /\ last' = [op |-> "getDb", fault |-> fault, threw |-> r.threw,
                   ran |-> r.ran, opened |-> db.open,
                   ret |-> IF r.threw THEN {}
                           ELSE {[foreign_keys |-> r.db.foreign_keys,
                                  wal |-> r.disk.wal, schema |-> r.disk.schema]}]
       /\ UNCHANGED <<now, ticks, user_profiles, user_games, games, game_genres,
                      game_tags, recommendations, recommendation_feedback,
                      game_statuses, legacy, bak, migrated, pid, commits>>
       /\ UNCHANGED handlers

\* const db = getDb(), with no statement of getDb throwing
UsesDb ==
    /\ db' = GetDb(db, disk, "none").db
    /\ disk' = GetDb(db, disk, "none").disk

----------------------------------------------------------------------------
(* Calls and requests in progress                                          *)

\* no exported function of cache.ts is executing
NoCall == [op |-> "none"]

\* the requests that may arrive at the recommendation route
RequestIds == {1, 2}

\* no request has arrived
NoRequests == [q \in RequestIds |-> [pc |-> "idle"]]

----------------------------------------------------------------------------
(* The clock                                                               *)

Tick(steps) ==
    /\ ticks < MaxTicks
    /\ \E d \in steps :
          /\ now' = now + d
          /\ last' = [op |-> "tick"]
    /\ ticks' = ticks + 1
    /\ UNCHANGED tables
    /\ UNCHANGED statusStore
    /\ UNCHANGED <<db, disk>>
    /\ UNCHANGED handlers

----------------------------------------------------------------------------
(* User profile cache                                                      *)

DisplayNames == {"Ann", "Bob"}

ProfileRow(steamId) == {r \in user_profiles : r.steam_id = steamId}

\* INSERT INTO user_profiles ... ON CONFLICT(steam_id) DO UPDATE SET ...
UpsertProfile(steamId, displayName) ==
    {r \in user_profiles : r.steam_id # steamId}
        \cup {[steam_id |-> steamId, display_name |-> displayName,
               last_synced_at |-> now]}

cacheUserProfile(steamId, displayName) ==
    /\ user_profiles' = UpsertProfile(steamId, displayName)
    /\ last' = [op |-> "cacheUserProfile", steamId |-> steamId,
                displayName |-> displayName, at |-> now]
    /\ UNCHANGED <<now, ticks, user_games, games, game_genres, game_tags,
                   recommendations>>
    /\ UNCHANGED statusStore
    /\ UsesDb
    /\ UNCHANGED handlers

\* a window that is closed at 24 hours
ProfileFreshInclusive(r) ==
    r.last_synced_at >= DatetimeNowMinus(ProfileTtlHours, SecondsPerHour)

\* the WHERE clause of getCachedProfile
ProfileFresh(r) == r.last_synced_at > DatetimeNowMinus(ProfileTtlHours, SecondsPerHour)

\* SELECT ... FROM user_profiles WHERE steam_id = ? AND <fresh>: the rows selected
SelectProfile(steamId) == {r \in ProfileRow(steamId) : ProfileFresh(r)}

\* a read that deletes the row it finds stale
getCachedProfileEvicting(steamId) ==
    /\ last' = [op |-> "getCachedProfile", steamId |-> steamId,
                ret |-> SelectProfile(steamId), at |-> now]
    /\ user_profiles' = {r \in user_profiles :
                            r.steam_id = steamId => ProfileFresh(r)}
    /\ UNCHANGED <<now, ticks, user_games, games, game_genres, game_tags,
                   recommendations>>
    /\ UNCHANGED statusStore
    /\ UsesDb
    /\ UNCHANGED handlers

getCachedProfile(steamId) ==
    /\ last' = [op |-> "getCachedProfile", steamId |-> steamId,
                ret |-> SelectProfile(steamId), at |-> now]
    /\ UNCHANGED <<now, ticks>>
    /\ UNCHANGED tables
    /\ UNCHANGED statusStore
    /\ UsesDb
    /\ UNCHANGED handlers

----------------------------------------------------------------------------
(* Transactions                                                            *)

\* db.transaction(fn)(): BEGIN, run fn, COMMIT; when a statement of fn throws,
\* ROLLBACK restores the tables as they were and the exception is rethrown.
\* `run' is the state fn produced, with run.ok = FALSE when fn threw.
\* a transaction whose ROLLBACK is missing: what fn wrote before it threw stays
TransactionWithoutRollback(before, run) == run

Transaction(before, run) == IF run.ok THEN run ELSE [before EXCEPT !.ok = FALSE]

----------------------------------------------------------------------------
(* User library cache                                                      *)

AppIds == {1, 2}
GameNames == {"HL", Null}
Playtimes == {10, 20}

\* the values that cacheGameDetails writes to the metadata columns other than
\* name (type ... price); a stub row of cacheUserLibrary leaves them NULL
NoDetails == Null

\* One game of the Steam library.  playtime stands for the three columns
\* playtime_forever, playtime_2weeks and last_played_at, which are written
\* and read together.
LibraryGame == [appid : AppIds, name : GameNames, playtime : Playtimes]

\* the games of the syncs explored: every named game, and one game per app id
\* whose name is missing
SyncedGames == {g \in LibraryGame : g.name = Null => g.playtime = 10}

MaxLibrary == 2

LibraryInputs == UNION {[1..n -> SyncedGames] : n \in 0..MaxLibrary}

UserGamesOf(table, steamId) == {r \in table : r.steam_id = steamId}

\* a sync that merges into the old rows instead of replacing them
DeleteNoUserGames(table, steamId) == table

\* DELETE FROM user_games WHERE steam_id = ?
DeleteUserGames(table, steamId) == {r \in table : r.steam_id # steamId}

\* upsertUserGame.run(...), executed when datetime('now') is t
UpsertUserGame(table, steamId, game, t) ==
    {r \in table : ~(r.steam_id = steamId /\ r.app_id = game.appid)}
        \cup {[steam_id |-> steamId, app_id |-> game.appid,
               playtime |-> game.playtime, synced_at |-> t]}

\* the CASE expression of upsertGameName
ProtectedName(old, new) == IF old = "" \/ old = Null THEN new ELSE old

\* upsertGameName.run(appid, name), executed when datetime('now') is t.
\* games.name is NOT NULL: a NULL name aborts the statement.
UpsertGameNameThrows(game) == game.name = Null

\* an upsert that also renews last_fetched_at of the row it finds
UpsertGameNameRefreshing(table, game, t) ==
    IF \E r \in table : r.app_id = game.appid
    THEN {IF r.app_id = game.appid
          THEN [r EXCEPT !.name = ProtectedName(r.name, game.name),
                         !.last_fetched_at = t]
          ELSE r : r \in table}
    ELSE table \cup {[app_id |-> game.appid, name |-> game.name,
                      details |-> NoDetails, last_fetched_at |-> t]}

UpsertGameName(table, game, t) ==
    IF \E r \in table : r.app_id = game.appid
    THEN {IF r.app_id = game.appid
          THEN [r EXCEPT !.name = ProtectedName(r.name, game.name)]
          ELSE r : r \in table}
    ELSE table \cup {[app_id |-> game.appid, name |-> game.name,
                      details |-> NoDetails, last_fetched_at |-> t]}

\* The body of the transaction of cacheUserLibrary from game i on.  Each
\* statement reads datetime('now') for itself: the games from index tickAt on
\* run one second later than the ones before.
RECURSIVE LibraryLoop(_, _, _, _, _)
LibraryLoop(st, steamId, gs, i, tickAt) ==
    IF i > Len(gs) THEN st
    ELSE LET t  == IF i >= tickAt THEN now + 1 ELSE now
             ug == UpsertUserGame(st.user_games, steamId, gs[i], t)
         IN IF UpsertGameNameThrows(gs[i])
            THEN [st EXCEPT !.user_games = ug, !.ok = FALSE]
            ELSE LibraryLoop([st EXCEPT !.user_games = ug,
                                        !.games = UpsertGameName(st.games, gs[i], t)],
                             steamId, gs, i + 1, tickAt)

LibraryTransaction(st, steamId, gs, tickAt) ==
    LibraryLoop([st EXCEPT !.user_games = DeleteUserGames(st.user_games, steamId)],
                steamId, gs, 1, tickAt)

cacheUserLibrary(steamId, gs, tickAt) ==
    LET before == [user_games |-> user_games, games |-> games, ok |-> TRUE]
        run    == LibraryTransaction(before, steamId, gs, tickAt)
        after  == Transaction(before, run)
        ticked == tickAt <= Len(gs)
    IN /\ ticked => ticks < MaxTicks
       /\ user_games' = after.user_games
       /\ games' = after.games
       /\ now' = IF ticked THEN now + 1 ELSE now
       /\ ticks' = IF ticked THEN ticks + 1 ELSE ticks
       \* replaced: the app ids of the snapshot the sync found; written: the
       \* app ids the transaction had inserted when it threw
       /\ last' = IF after.ok
                  THEN [op |-> "cacheUserLibrary", steamId |-> steamId,
                        threw |-> FALSE, games |-> gs,
                        replaced |-> {r.app_id : r \in UserGamesOf(user_games, steamId)}]
                  ELSE [op |-> "cacheUserLibrary", steamId |-> steamId,
                        threw |-> TRUE,
                        written |-> {r.app_id : r \in UserGamesOf(run.user_games, steamId)}]
       /\ UNCHANGED <<user_profiles, game_genres, game_tags, recommendations>>
       /\ UNCHANGED statusStore
       /\ UsesDb
       /\ UNCHANGED handlers

\* the WHERE clause of the first query of getCachedLibrary
LibraryFresh(r) == r.synced_at > DatetimeNowMinus(LibraryTtlMinutes, SecondsPerMinute)

\* a read that returns the fresh rows only
SelectFreshLibrary(steamId) ==
    IF \E r \in UserGamesOf(user_games, steamId) : LibraryFresh(r)
    THEN [hit |-> TRUE, rows |-> {r \in UserGamesOf(user_games, steamId) : LibraryFresh(r)}]
    ELSE [hit |-> FALSE, rows |-> {}]

\* null, or the rows of the second query
SelectLibrary(steamId) ==
    IF \E r \in UserGamesOf(user_games, steamId) : LibraryFresh(r)
    THEN [hit |-> TRUE, rows |-> UserGamesOf(user_games, steamId)]
    ELSE [hit |-> FALSE, rows |-> {}]

getCachedLibrary(steamId) ==
    /\ last' = [op |-> "getCachedLibrary", steamId |-> steamId,
                ret |-> SelectLibrary(steamId), at |-> now]
    /\ UNCHANGED <<now, ticks>>
    /\ UNCHANGED tables
    /\ UNCHANGED statusStore
    /\ UsesDb
    /\ UNCHANGED handlers

----------------------------------------------------------------------------
(* Game details cache                                                      *)

\* An optional argument or property (tags?, genres?): {} when it is absent,
\* {v} when it is v.
Absent == {}
Given(v) == {v}

Genres == {"Action", "RPG"}
TagNames == {"Indie", "Roguelike"}
TagRanks == {1, 2}
Tag == [tag : TagNames, rank : TagRanks]

MaxGenres == 1
MaxTags == 2

SeqsUpTo(S, n) == UNION {[1..k -> S] : k \in 0..n}

GenreInputs == {Absent} \cup {Given(g) : g \in SeqsUpTo(Genres, MaxGenres)}
TagInputs == {Absent} \cup {Given(t) : t \in SeqsUpTo(Tag, MaxTags)}

\* the values of the metadata columns type ... price of a Steam response
Details == "details"

GameRow(table, appId) == {r \in table : r.app_id = appId}

\* JS undefined: a statement's run() throws a TypeError when it is asked to
\* bind it, before the statement executes
Undefined == "<undefined>"

BindThrows(v) == v = Undefined

\* INSERT INTO games (...) VALUES (...) ON CONFLICT(app_id) DO UPDATE SET
\* name = excluded.name, ..., last_fetched_at = datetime('now')
UpsertGameThrows(details) == details.name = Null \/ BindThrows(details.name)

UpsertGame(table, appId, details) ==
    {r \in table : r.app_id # appId}
        \cup {[app_id |-> appId, name |-> details.name,
               details |-> details.info, last_fetched_at |-> now]}

\* INSERT OR IGNORE INTO game_genres: a row that is already there, or whose
\* genre is NULL (the column is NOT NULL), is skipped
InsertGenre(table, appId, g) ==
    IF g = Null THEN table ELSE table \cup {[app_id |-> appId, genre |-> g]}

\* for (const genre of details.genres) insertGenre.run(appId, genre.description)
RECURSIVE InsertGenres(_, _, _, _)
InsertGenres(st, appId, gs, i) ==
    IF i > Len(gs) THEN st
    ELSE IF BindThrows(gs[i]) THEN [st EXCEPT !.ok = FALSE]
    ELSE InsertGenres([st EXCEPT !.game_genres = InsertGenre(@, appId, gs[i])],
                      appId, gs, i + 1)

\* a write that adds the genres of the call to the stored ones
MergeGenres(st, appId, genres) ==
    IF genres # Absent /\ \A gs \in genres : Len(gs) > 0
    THEN InsertGenres(st, appId, CHOOSE gs \in genres : TRUE, 1)
    ELSE st

\* DELETE FROM game_genres WHERE app_id = ?, then the inserts when
\* details.genres is given and not empty
ReplaceGenres(st, appId, genres) ==
    LET cleared == [st EXCEPT !.game_genres = {r \in @ : r.app_id # appId}]
    IN IF genres # Absent /\ \A gs \in genres : Len(gs) > 0
       THEN InsertGenres(cleared, appId, CHOOSE gs \in genres : TRUE, 1)
       ELSE cleared

\* INSERT OR IGNORE INTO game_tags: a row whose (app_id, tag) is already
\* there, or whose tag is NULL, is skipped
InsertTag(table, appId, t) ==
    IF t.tag = Null \/ \E r \in table : r.app_id = appId /\ r.tag = t.tag
    THEN table
    ELSE table \cup {[app_id |-> appId, tag |-> t.tag, rank |-> t.rank]}

\* for (const t of tags) insertTag.run(appId, t.tag, t.rank)
RECURSIVE InsertTags(_, _, _, _)
InsertTags(st, appId, ts, i) ==
    IF i > Len(ts) THEN st
    ELSE IF BindThrows(ts[i].tag) THEN [st EXCEPT !.ok = FALSE]
    ELSE InsertTags([st EXCEPT !.game_tags = InsertTag(@, appId, ts[i])],
                    appId, ts, i + 1)

\* if (tags && tags.length > 0) { DELETE FROM game_tags WHERE app_id = ?; ... }
ReplaceTags(st, appId, tags) ==
    IF tags # Absent /\ \A ts \in tags : Len(ts) > 0
    THEN InsertTags([st EXCEPT !.game_tags = {r \in @ : r.app_id # appId}],
                    appId, CHOOSE ts \in tags : TRUE, 1)
    ELSE st

\* the body of the transaction: a statement that throws ends it
GameDetailsTransaction(st, appId, details, tags) ==
    IF UpsertGameThrows(details)
    THEN [st EXCEPT !.ok = FALSE]
    ELSE LET upserted == [st EXCEPT !.games = UpsertGame(@, appId, details)]
             replaced == ReplaceGenres(upserted, appId, details.genres)
         IN IF replaced.ok THEN ReplaceTags(replaced, appId, tags) ELSE replaced

\* SELECT genre FROM game_genres WHERE app_id = ?
SelectGenres(appId) == {r.genre : r \in {x \in game_genres : x.app_id = appId}}

\* SELECT tag, rank FROM game_tags WHERE app_id = ?
TagRows(appId) == {[tag |-> r.tag, rank |-> r.rank] :
                     r \in {x \in game_tags : x.app_id = appId}}

cacheGameDetails(appId, details, tags) ==
    LET before == [games |-> games, game_genres |-> game_genres,
                   game_tags |-> game_tags, ok |-> TRUE]
        run    == GameDetailsTransaction(before, appId, details, tags)
        after  == Transaction(before, run)
    IN /\ games' = after.games
       /\ game_genres' = after.game_genres
       /\ game_tags' = after.game_tags
       \* had: what was stored for the entity when the call began; written:
       \* the tables the transaction had changed when it threw
       /\ last' = IF after.ok
                  THEN [op |-> "cacheGameDetails", appId |-> appId, threw |-> FALSE,
                        details |-> details, tags |-> tags,
                        had |-> [genres |-> SelectGenres(appId),
                                 tags |-> TagRows(appId)]]
                  ELSE [op |-> "cacheGameDetails", appId |-> appId, threw |-> TRUE,
                        written |-> [games |-> run.games # games,
                                     game_genres |-> run.game_genres # game_genres,
                                     game_tags |-> run.game_tags # game_tags]]
       /\ UNCHANGED <<now, ticks, user_profiles, user_games, recommendations>>
       /\ UNCHANGED statusStore
       /\ UsesDb
       /\ UNCHANGED handlers

\* a window that is closed at 7 days
GameFreshInclusive(r) == r.last_fetched_at >= DatetimeNowMinus(GameTtlDays, SecondsPerDay)

\* the WHERE clause of the first query of getCachedGameDetails
GameFresh(r) == r.last_fetched_at > DatetimeNowMinus(GameTtlDays, SecondsPerDay)

SelectGame(appId) == {r \in GameRow(games, appId) : GameFresh(r)}

\* ... ORDER BY rank ASC: every listing of the rows with the ranks ascending;
\* SQL leaves the order of rows of equal rank open
OrderByRank(rows) ==
    {s \in [1..Cardinality(rows) -> rows] :
        /\ \A r \in rows : \E i \in DOMAIN s : s[i] = r
        /\ \A i, j \in DOMAIN s : i < j => s[i].rank <= s[j].rank}

getCachedGameDetails(appId) ==
    /\ IF SelectGame(appId) = {}
       THEN last' = [op |-> "getCachedGameDetails", appId |-> appId, at |-> now,
                     ret |-> {}]
       ELSE \E ts \in OrderByRank(TagRows(appId)) :
               last' = [op |-> "getCachedGameDetails", appId |-> appId, at |-> now,
                        ret |-> {[row |-> r, genres |-> SelectGenres(appId),
                                  tags |-> ts] : r \in SelectGame(appId)}]
    /\ UNCHANGED <<now, ticks>>
    /\ UNCHANGED tables
    /\ UNCHANGED statusStore
    /\ UsesDb
    /\ UNCHANGED handlers

getGameTagsFromCache(appId) ==
    /\ \E ts \in OrderByRank(TagRows(appId)) :
          last' = [op |-> "getGameTagsFromCache", appId |-> appId, ret |-> ts]
    /\ UNCHANGED <<now, ticks>>
    /\ UNCHANGED tables
    /\ UNCHANGED statusStore
    /\ UsesDb
    /\ UNCHANGED handlers

----------------------------------------------------------------------------
(* The reads of several statements, statement by statement                 *)

\* a call that gives way to the other callbacks between its statements
IdleOrAwaiting == TRUE

\* getCachedLibrary and getCachedGameDetails are synchronous functions over
\* synchronous statements: once one has started, no other callback of the
\* process runs before it returns
Idle == reading = NoCall

\* what a statement inside a call leaves alone
StatementFrame ==
    /\ UNCHANGED <<now, ticks, requests>>
    /\ UNCHANGED tables
    /\ UNCHANGED statusStore

\* getDb(), then the first query of getCachedLibrary and if (!newest) return null
getCachedLibraryNewest(steamId) ==
    /\ Idle
    /\ IF \E r \in UserGamesOf(user_games, steamId) : LibraryFresh(r)
       THEN /\ reading' = [op |-> "getCachedLibrary", steamId |-> steamId,
                           pc |-> "rows"]
            /\ last' = [op |-> "statement", of |-> "getCachedLibrary", at |-> now]
       ELSE /\ reading' = NoCall
            /\ last' = [op |-> "getCachedLibrary", steamId |-> steamId,
                        ret |-> [hit |-> FALSE, rows |-> {}], at |-> now]
    /\ StatementFrame
    /\ UsesDb

\* the second query of getCachedLibrary, and the return
getCachedLibraryRows ==
    /\ reading.op = "getCachedLibrary"
    /\ reading.pc = "rows"
    /\ reading' = NoCall
    /\ last' = [op |-> "getCachedLibrary", steamId |-> reading.steamId,
                ret |-> [hit |-> TRUE,
                         rows |-> UserGamesOf(user_games, reading.steamId)],
                at |-> now]
    /\ StatementFrame
    /\ UNCHANGED <<db, disk>>

\* getDb(), then the first query of getCachedGameDetails and if (!row) return null
getCachedGameDetailsRow(appId) ==
    /\ Idle
    /\ IF SelectGame(appId) = {}
       THEN /\ reading' = NoCall
            /\ last' = [op |-> "getCachedGameDetails", appId |-> appId, at |-> now,
                        ret |-> {}]
       ELSE \E r \in SelectGame(appId) :
               /\ reading' = [op |-> "getCachedGameDetails", appId |-> appId,
                              pc |-> "genres", row |-> r, genres |-> {}]
               /\ last' = [op |-> "statement", of |-> "getCachedGameDetails",
                           at |-> now]
    /\ StatementFrame
    /\ UsesDb

\* the second query of getCachedGameDetails
getCachedGameDetailsGenres ==
    /\ reading.op = "getCachedGameDetails"
    /\ reading.pc = "genres"
    /\ reading' = [reading EXCEPT !.pc = "tags",
                                  !.genres = SelectGenres(reading.appId)]
    /\ last' = [op |-> "statement", of |-> "getCachedGameDetails", at |-> now]
    /\ StatementFrame
    /\ UNCHANGED <<db, disk>>

\* the third query of getCachedGameDetails, and the return
getCachedGameDetailsTags ==
    /\ reading.op = "getCachedGameDetails"
    /\ reading.pc = "tags"
    /\ reading' = NoCall
    /\ \E ts \in OrderByRank(TagRows(reading.appId)) :
          last' = [op |-> "getCachedGameDetails", appId |-> reading.appId,
                   at |-> now,
                   ret |-> {[row |-> reading.row, genres |-> reading.genres,
                             tags |-> ts]}]
    /\ StatementFrame
    /\ UNCHANGED <<db, disk>>

----------------------------------------------------------------------------
(* Recommendation cache                                                    *)

RecTypes == {"similar", "library", "general"}
Payloads == {"P1", "P2"}
TtlHours == {1, 2}

\* a nullable integer (source_app_id): {} is NULL, {n} is n
SqlNull == {}

\* the sources of the calls explored: none, and the entity 1
KeySources == {SqlNull, {1}}

\* SQL's three truth values
SqlAnd(a, b) == IF a = "false" \/ b = "false" THEN "false"
                ELSE IF a = "true" /\ b = "true" THEN "true" ELSE "null"
SqlOr(a, b) == IF a = "true" \/ b = "true" THEN "true"
               ELSE IF a = "false" /\ b = "false" THEN "false" ELSE "null"
SqlBool(b) == IF b THEN "true" ELSE "false"
\* x IS y: never NULL, and NULL IS NULL
SqlIs(x, y) == SqlBool(x = y)
\* x = y: NULL when either side is NULL
SqlEq(x, y) == IF x = SqlNull \/ y = SqlNull THEN "null" ELSE SqlBool(x = y)
SqlIsNotNull(x) == SqlBool(x # SqlNull)

\* INTEGER PRIMARY KEY AUTOINCREMENT
NextRecId == IF recommendations = {} THEN 1
             ELSE 1 + CHOOSE m \in {r.id : r \in recommendations} :
                         \A r \in recommendations : r.id <= m

\* a write that replaces the rows of its key instead of adding to them
ReplaceRecommendation(steamId, sourceAppId, recType, resultJson, ttlHours) ==
    {r \in recommendations :
        ~(r.steam_id = steamId /\ r.source_app_id = sourceAppId /\ r.rec_type = recType)}
      \cup
        {[id |-> NextRecId, steam_id |-> steamId, source_app_id |-> sourceAppId,
          rec_type |-> recType, result_json |-> resultJson,
          created_at |-> now, expires_at |-> DatetimeNowPlusHours(ttlHours)]}

InsertRecommendation(steamId, sourceAppId, recType, resultJson, ttlHours) ==
    recommendations \cup
        {[id |-> NextRecId, steam_id |-> steamId, source_app_id |-> sourceAppId,
          rec_type |-> recType, result_json |-> resultJson,
          created_at |-> now, expires_at |-> DatetimeNowPlusHours(ttlHours)]}

MaxRecs == 2

cacheRecommendation(steamId, sourceAppId, recType, resultJson, ttlHours) ==
    /\ Cardinality(recommendations) < MaxRecs
    /\ recommendations' =
          InsertRecommendation(steamId, sourceAppId, recType, resultJson, ttlHours)
    /\ last' = [op |-> "cacheRecommendation", steamId |-> steamId,
                sourceAppId |-> sourceAppId, recType |-> recType, id |-> NextRecId,
                ttlHours |-> ttlHours]
    /\ UNCHANGED <<now, ticks, user_profiles, user_games, games, game_genres,
                   game_tags>>
    /\ UNCHANGED statusStore
    /\ UsesDb
    /\ UNCHANGED handlers

\* (source_app_id = ? OR ? IS NULL): a NULL source that matches every row
SourceMatchesOrNull(r, sourceAppId) ==
    SqlOr(SqlEq(r.source_app_id, sourceAppId), SqlBool(sourceAppId = SqlNull))

\* (source_app_id IS ? OR (source_app_id = ? AND ? IS NOT NULL))
SourceMatches(r, sourceAppId) ==
    SqlOr(SqlIs(r.source_app_id, sourceAppId),
          SqlAnd(SqlEq(r.source_app_id, sourceAppId), SqlIsNotNull(sourceAppId)))

\* datetime(expires_at) > datetime('now')
RecUnexpired(r) == r.expires_at > now

\* the WHERE clause of getCachedRecommendation
RecWhere(r, steamId, sourceAppId, recType) ==
    SqlAnd(SqlAnd(SqlBool(r.steam_id = steamId), SourceMatches(r, sourceAppId)),
           SqlAnd(SqlBool(r.rec_type = recType), SqlBool(RecUnexpired(r)))) = "true"

\* ORDER BY created_at ASC LIMIT 1
FirstByCreatedAtAsc(rows) == {r \in rows : \A x \in rows : r.created_at <= x.created_at}

\* ORDER BY created_at DESC LIMIT 1: a row that no other row precedes; SQL
\* leaves open which one when several rows have the same created_at
FirstByCreatedAtDesc(rows) == {r \in rows : \A x \in rows : x.created_at <= r.created_at}

SelectRecommendation(steamId, sourceAppId, recType) ==
    FirstByCreatedAtDesc({r \in recommendations :
                            RecWhere(r, steamId, sourceAppId, recType)})

getCachedRecommendation(steamId, sourceAppId, recType) ==
    /\ LET first == SelectRecommendation(steamId, sourceAppId, recType)
       IN IF first = {}
          THEN last' = [op |-> "getCachedRecommendation", steamId |-> steamId,
                        sourceAppId |-> sourceAppId, recType |-> recType,
                        at |-> now, ret |-> {}]
          ELSE \E r \in first :
                  last' = [op |-> "getCachedRecommendation", steamId |-> steamId,
                           sourceAppId |-> sourceAppId, recType |-> recType,
                           at |-> now, ret |-> {r}]
    /\ UNCHANGED <<now, ticks>>
    /\ UNCHANGED tables
    /\ UNCHANGED statusStore
    /\ UsesDb
    /\ UNCHANGED handlers

----------------------------------------------------------------------------
(* Cache invalidation                                                      *)

\* an invalidation that deletes the recommendations of the user as well
invalidateUserData(steamId) ==
    /\ user_games' = {r \in user_games : r.steam_id # steamId}
    /\ user_profiles' = {r \in user_profiles : r.steam_id # steamId}
    /\ recommendations' = {r \in recommendations : r.steam_id # steamId}
    /\ last' = [op |-> "invalidateUserCache", steamId |-> steamId, at |-> now,
                removed |-> [user_games |-> UserGamesOf(user_games, steamId) # {},
                             user_profiles |-> ProfileRow(steamId) # {}]]
    /\ UNCHANGED <<now, ticks, games, game_genres, game_tags>>
    /\ UNCHANGED statusStore
    /\ UsesDb
    /\ UNCHANGED handlers

\* DELETE FROM user_games WHERE steam_id = ?; DELETE FROM user_profiles WHERE
\* steam_id = ?, in one transaction.  removed: whether the user had rows.
invalidateUserCache(steamId) ==
    /\ user_games' = {r \in user_games : r.steam_id # steamId}
    /\ user_profiles' = {r \in user_profiles : r.steam_id # steamId}
    /\ last' = [op |-> "invalidateUserCache", steamId |-> steamId, at |-> now,
                removed |-> [user_games |-> UserGamesOf(user_games, steamId) # {},
                             user_profiles |-> ProfileRow(steamId) # {}]]
    /\ UNCHANGED <<now, ticks, games, game_genres, game_tags, recommendations>>
    /\ UNCHANGED statusStore
    /\ UsesDb
    /\ UNCHANGED handlers

----------------------------------------------------------------------------
(* Recommendation feedback                                                 *)

FeedbackActions == {"saved", "dismissed", "clicked"}

\* the rows of one user and one recommended entity
FeedbackRows(steamId, recommendedAppId) ==
    {r \in recommendation_feedback :
        r.steam_id = steamId /\ r.recommended_app_id = recommendedAppId}

\* a write that keeps the earlier feedback of the pair
appendRecommendationFeedback(steamId, recommendedAppId, action) ==
    /\ recommendation_feedback' =
          recommendation_feedback
            \cup {[steam_id |-> steamId, recommended_app_id |-> recommendedAppId,
                   action |-> action, created_at |-> now]}
    /\ last' = [op |-> "recordRecommendationFeedback", steamId |-> steamId,
                recommendedAppId |-> recommendedAppId, action |-> action,
                was |-> {r.action : r \in FeedbackRows(steamId, recommendedAppId)}]
    /\ UNCHANGED <<now, ticks, game_statuses, legacy, bak, migrated, pid, commits>>
    /\ UNCHANGED tables
    /\ UsesDb
    /\ UNCHANGED handlers

\* INSERT INTO recommendation_feedback ... ON CONFLICT(steam_id,
\* recommended_app_id) DO UPDATE SET action = excluded.action, created_at = ...
recordRecommendationFeedback(steamId, recommendedAppId, action) ==
    /\ recommendation_feedback' =
          {r \in recommendation_feedback :
              ~(r.steam_id = steamId /\ r.recommended_app_id = recommendedAppId)}
            \cup {[steam_id |-> steamId, recommended_app_id |-> recommendedAppId,
                   action |-> action, created_at |-> now]}
    /\ last' = [op |-> "recordRecommendationFeedback", steamId |-> steamId,
                recommendedAppId |-> recommendedAppId, action |-> action,
                was |-> {r.action : r \in FeedbackRows(steamId, recommendedAppId)}]
    /\ UNCHANGED <<now, ticks, game_statuses, legacy, bak, migrated, pid, commits>>
    /\ UNCHANGED tables
    /\ UsesDb
    /\ UNCHANGED handlers

getDismissedAppIds(steamId) ==
    /\ last' = [op |-> "getDismissedAppIds", steamId |-> steamId,
                ret |-> {r.recommended_app_id :
                           r \in {x \in recommendation_feedback :
                                     x.steam_id = steamId /\ x.action = "dismissed"}}]
    /\ UNCHANGED <<now, ticks>>
    /\ UNCHANGED tables
    /\ UNCHANGED statusStore
    /\ UsesDb
    /\ UNCHANGED handlers

----------------------------------------------------------------------------
(* Game statuses: the migration of the legacy file                         *)

\* the CHECK constraint of game_statuses.status
Statuses == {"played", "liked", "not_interested"}

\* A file of the data directory: absent, present with a text JSON.parse
\* rejects, or present with the records of the map user -> key -> record, in
\* the order Object.entries and Object.values list them.
NoFile == [state |-> "absent", entries |-> <<>>]
CorruptFile == [state |-> "corrupt", entries |-> <<>>]
JsonFile(es) == [state |-> "json", entries |-> es]

\* entry.updatedAt || new Date().toISOString()
UpdatedAt(entry) == IF entry.updatedAt = Absent THEN now
                    ELSE CHOOSE t \in entry.updatedAt : TRUE

\* insert.run({...}) throws when name is undefined (the bind), when name is
\* null (NOT NULL) and when status fails the CHECK constraint
InsertStatusThrows(entry) ==
    \/ BindThrows(entry.name)
    \/ entry.name = Null
    \/ entry.status \notin Statuses

\* INSERT OR REPLACE INTO game_statuses
InsertOrReplaceStatus(table, steamId, entry) ==
    {r \in table : ~(r.steam_id = steamId /\ r.app_id = entry.appid)}
        \cup {[steam_id |-> steamId, app_id |-> entry.appid, name |-> entry.name,
               status |-> entry.status, updated_at |-> UpdatedAt(entry)]}

\* the body of the transaction `migrate': the two loops over the file
RECURSIVE MigrateLoop(_, _, _)
MigrateLoop(st, es, i) ==
    IF i > Len(es) THEN st
    ELSE IF InsertStatusThrows(es[i]) THEN [st EXCEPT !.ok = FALSE]
    ELSE MigrateLoop([st EXCEPT !.game_statuses =
                         InsertOrReplaceStatus(@, es[i].steamId, es[i])],
                     es, i + 1)

\* a migration that renames the file whether or not the transaction committed
migrateAndRename(st, renameOk) ==
    IF st.legacy.state = "absent" THEN [st EXCEPT !.outcome = "absent"]
    ELSE IF st.legacy.state = "corrupt"
    THEN [st EXCEPT !.outcome = "done", !.legacy = NoFile, !.bak = st.legacy]
    ELSE LET before == [game_statuses |-> st.game_statuses, ok |-> TRUE]
             after  == Transaction(before, MigrateLoop(before, st.legacy.entries, 1))
         IN [st EXCEPT !.game_statuses = after.game_statuses, !.outcome = "done",
                       !.commits = IF after.ok THEN @ + 1 ELSE @,
                       !.legacy = NoFile, !.bak = st.legacy]

\* migrateFromJson().  Every exception is caught: of JSON.parse, of the
\* transaction (after its rollback) and of renameSync, which runs after the
\* commit (renameOk: whether it succeeds).  outcome records what happened.
migrateFromJson(st, renameOk) ==
    IF st.legacy.state = "absent" THEN [st EXCEPT !.outcome = "absent"]
    ELSE IF st.legacy.state = "corrupt" THEN [st EXCEPT !.outcome = "failed"]
    ELSE LET before == [game_statuses |-> st.game_statuses, ok |-> TRUE]
             after  == Transaction(before, MigrateLoop(before, st.legacy.entries, 1))
         IN IF ~after.ok
            THEN [st EXCEPT !.game_statuses = after.game_statuses,
                            !.outcome = "failed"]
            ELSE IF renameOk
            THEN [st EXCEPT !.game_statuses = after.game_statuses,
                            !.commits = @ + 1,
                            !.legacy = NoFile, !.bak = st.legacy,
                            !.outcome = "done"]
            ELSE [st EXCEPT !.game_statuses = after.game_statuses,
                            !.commits = @ + 1,
                            !.outcome = "unrenamed"]

\* an ensureMigrated that has no flag
ensureMigratedAlways(st, renameOk) ==
    migrateFromJson([st EXCEPT !.migrated = TRUE], renameOk)

\* an ensureMigrated that does nothing
ensureMigratedNever(st, renameOk) == [st EXCEPT !.outcome = "skipped"]

\* if (migrated) return; migrated = true; migrateFromJson();
ensureMigrated(st, renameOk) ==
    IF st.migrated THEN [st EXCEPT !.outcome = "skipped"]
    ELSE migrateFromJson([st EXCEPT !.migrated = TRUE], renameOk)

\* the store and the files as an accessor finds them
StatusState == [game_statuses |-> game_statuses, legacy |-> legacy, bak |-> bak,
                migrated |-> migrated, commits |-> commits, outcome |-> "none"]

StatusRowsOf(table, steamId) == {r \in table : r.steam_id = steamId}

\* what every accessor leaves alone
StatusFrame ==
    /\ UNCHANGED <<now, ticks, recommendation_feedback, pid>>
    /\ UNCHANGED tables
    /\ UsesDb
    /\ UNCHANGED handlers

getUserStatuses(steamId, renameOk) ==
    LET m == ensureMigrated(StatusState, renameOk)
    IN /\ game_statuses' = m.game_statuses
       /\ legacy' = m.legacy
       /\ bak' = m.bak
       /\ migrated' = m.migrated
       /\ commits' = m.commits
       /\ last' = [op |-> "getUserStatuses", steamId |-> steamId,
                   migration |-> m.outcome,
                   ret |-> StatusRowsOf(m.game_statuses, steamId)]
       /\ StatusFrame

\* an upsert whose conflict target is the entity alone
UpsertStatusAnyUser(table, steamId, appid, name, status) ==
    {r \in table : r.app_id # appid}
        \cup {[steam_id |-> steamId, app_id |-> appid, name |-> name,
               status |-> status, updated_at |-> now]}

\* INSERT INTO game_statuses ... ON CONFLICT(steam_id, app_id) DO UPDATE SET
\* name, status, updated_at
UpsertStatus(table, steamId, appid, name, status) ==
    {r \in table : ~(r.steam_id = steamId /\ r.app_id = appid)}
        \cup {[steam_id |-> steamId, app_id |-> appid, name |-> name,
               status |-> status, updated_at |-> now]}

setGameStatus(steamId, appid, name, status, renameOk) ==
    LET m == ensureMigrated(StatusState, renameOk)
    IN /\ game_statuses' = UpsertStatus(m.game_statuses, steamId, appid, name, status)
       /\ legacy' = m.legacy
       /\ bak' = m.bak
       /\ migrated' = m.migrated
       /\ commits' = m.commits
       /\ last' = [op |-> "setGameStatus", steamId |-> steamId, appid |-> appid,
                   migration |-> m.outcome,
                   ret |-> [appid |-> appid, name |-> name, status |-> status]]
       /\ StatusFrame

removeGameStatus(steamId, appid, renameOk) ==
    LET m == ensureMigrated(StatusState, renameOk)
        hit == {r \in m.game_statuses : r.steam_id = steamId /\ r.app_id = appid}
    IN /\ game_statuses' = m.game_statuses \ hit
       /\ legacy' = m.legacy
       /\ bak' = m.bak
       /\ migrated' = m.migrated
       /\ commits' = m.commits
       /\ last' = [op |-> "removeGameStatus", steamId |-> steamId, appid |-> appid,
                   migration |-> m.outcome, ret |-> hit # {}]
       /\ StatusFrame

getGamesByStatus(steamId, status, renameOk) ==
    LET m == ensureMigrated(StatusState, renameOk)
    IN /\ game_statuses' = m.game_statuses
       /\ legacy' = m.legacy
       /\ bak' = m.bak
       /\ migrated' = m.migrated
       /\ commits' = m.commits
       /\ last' = [op |-> "getGamesByStatus", steamId |-> steamId, status |-> status,
                   migration |-> m.outcome,
                   ret |-> {r \in StatusRowsOf(m.game_statuses, steamId) :
                              r.status = status}]
       /\ StatusFrame

\* getUserStatuses, then the switch over entry.status
getStatusSummaryForPrompt(steamId, renameOk) ==
    LET m == ensureMigrated(StatusState, renameOk)
        statuses == StatusRowsOf(m.game_statuses, steamId)
        Items(status) == {[name |-> r.name, appid |-> r.app_id] :
                            r \in {x \in statuses : x.status = status}}
    IN /\ game_statuses' = m.game_statuses
       /\ legacy' = m.legacy
       /\ bak' = m.bak
       /\ migrated' = m.migrated
       /\ commits' = m.commits
       /\ last' = [op |-> "getStatusSummaryForPrompt", steamId |-> steamId,
                   migration |-> m.outcome,
                   ret |-> [played |-> Items("played"), liked |-> Items("liked"),
                            notInterested |-> Items("not_interested")]]
       /\ StatusFrame

----------------------------------------------------------------------------
(* The route of the general recommendations: GET                           *)

\* the lifetime that GET gives its rows
GeneralTtlHours == 12

\* JSON.stringify(response): what Gemini generated for the request
Generated(q) == IF q = 1 THEN "P1" ELSE "P2"

\* getCachedRecommendation(session.steamId, null, 'general'); a hit is the
\* response, and a miss goes on to await getOwnedGames
GETLookup(q, steamId) ==
    /\ requests[q].pc = "idle"
    /\ LET first == SelectRecommendation(steamId, SqlNull, "general")
       IN IF first = {}
          THEN /\ requests' = [requests EXCEPT ![q] = [pc |-> "fetching"]]
               /\ last' = [op |-> "GET", q |-> q, steamId |-> steamId,
                           step |-> "miss", at |-> now]
          ELSE \E r \in first :
                  /\ requests' = [requests EXCEPT ![q] =
                                     [pc |-> "done", status |-> 200, stored |-> 0,
                                      response |-> r.result_json]]
                  /\ last' = [op |-> "GET", q |-> q, steamId |-> steamId,
                              step |-> "hit", at |-> now]
    /\ UNCHANGED <<now, ticks, reading>>
    /\ UNCHANGED tables
    /\ UNCHANGED statusStore
    /\ UsesDb

\* getOwnedGames has resolved: an empty library is answered 404; otherwise
\* getStatusSummaryForPrompt and getDismissedAppIds run, and the handler
\* awaits getRecommendations
GETContext(q, steamId, owned) ==
    /\ requests[q].pc = "fetching"
    /\ IF ~owned
       THEN /\ requests' = [requests EXCEPT ![q] =
                               [pc |-> "done", status |-> 404, stored |-> 0,
                                response |-> "No games found in library"]]
            /\ UNCHANGED <<game_statuses, legacy, bak, migrated, commits, db, disk>>
       ELSE LET m == ensureMigrated(StatusState, TRUE)
            IN /\ requests' = [requests EXCEPT ![q] = [pc |-> "generating"]]
               /\ game_statuses' = m.game_statuses
               /\ legacy' = m.legacy
               /\ bak' = m.bak
               /\ migrated' = m.migrated
               /\ commits' = m.commits
               /\ UsesDb
    /\ last' = [op |-> "GET", q |-> q, steamId |-> steamId, step |-> "context",
                at |-> now]
    /\ UNCHANGED <<now, ticks, reading, recommendation_feedback, pid>>
    /\ UNCHANGED tables

\* getRecommendations has resolved: cacheRecommendation(session.steamId, null,
\* 'general', JSON.stringify(response), 12), and the response
GETStore(q, steamId) ==
    /\ requests[q].pc = "generating"
    /\ recommendations' =
          InsertRecommendation(steamId, SqlNull, "general", Generated(q),
                               GeneralTtlHours)
    /\ requests' = [requests EXCEPT ![q] =
                       [pc |-> "done", status |-> 200, stored |-> NextRecId,
                        response |-> Generated(q)]]
    /\ last' = [op |-> "GET", q |-> q, steamId |-> steamId, step |-> "store",
                at |-> now]
    /\ UNCHANGED <<now, ticks, reading, user_profiles, user_games, games,
                   game_genres, game_tags>>
    /\ UNCHANGED statusStore
    /\ UsesDb

----------------------------------------------------------------------------
(* The processes                                                           *)

\* The process ends and another one starts: the store and the files stay,
\* the variables of the modules start over.
MaxProcesses == 3

Restart ==
    /\ pid < MaxProcesses
    /\ pid' = pid + 1
    /\ migrated' = FALSE
    /\ db' = NoHandle
    /\ reading' = NoCall
    /\ requests' = NoRequests
    /\ UNCHANGED disk
    /\ last' = [op |-> "restart"]
    /\ UNCHANGED <<now, ticks, recommendation_feedback, game_statuses, legacy, bak,
                   commits>>
    /\ UNCHANGED tables

----------------------------------------------------------------------------
(* The first process starts on an empty store                              *)

InitStore ==
    /\ now = 0
    /\ ticks = 0
    /\ user_profiles = {}
    /\ user_games = {}
    /\ games = {}
    /\ game_genres = {}
    /\ game_tags = {}
    /\ recommendations = {}
    /\ recommendation_feedback = {}
    /\ game_statuses = {}
    /\ bak = NoFile
    /\ migrated = FALSE
    /\ pid = 1
    /\ commits = 0
    /\ db = NoHandle
    /\ reading = NoCall
    /\ requests = NoRequests
    /\ last = [op |-> "init"]

\* no legacy file in the data directory
Init ==
    /\ InitStore
    /\ legacy = NoFile
    /\ disk = NoStore

----------------------------------------------------------------------------
(* The profile cache on its own                                            *)

ProfileSteps == {1, ProfileTtlHours * SecondsPerHour - 1}

TickProfile == Tick(ProfileSteps)

NextProfile ==
    \/ \E u \in Users, n \in DisplayNames : cacheUserProfile(u, n)
    \/ \E u \in Users : getCachedProfile(u)
    \/ \E u \in Users : invalidateUserCache(u)
    \/ TickProfile

SpecProfile == Init /\ [][NextProfile]_vars

----------------------------------------------------------------------------
(* The library cache: what a sync writes.  The first user syncs every      *)
(* list, the second one the lists of named games with one playtime.        *)

SyncInputs(u) ==
    {gs \in LibraryInputs :
        u # "u1" => \A i \in 1..Len(gs) : gs[i].name # Null /\ gs[i].playtime = 10}

NextLibrary ==
    \/ \E u \in Users : \E gs \in SyncInputs(u) : cacheUserLibrary(u, gs, Len(gs) + 1)
    \/ \E u \in Users : getCachedLibrary(u)
    \/ \E u \in Users : invalidateUserCache(u)

SpecLibrary == Init /\ [][NextLibrary]_vars

----------------------------------------------------------------------------
(* The library cache: how a snapshot ages.  The syncs are of named games   *)
(* with one playtime, the second user's of game 2 alone, and the clock may *)
(* advance inside a sync.                                                  *)

AgingInputs(u) ==
    {gs \in LibraryInputs :
        /\ \A i \in 1..Len(gs) : gs[i].name # Null /\ gs[i].playtime = 10
        /\ u # "u1" => Len(gs) = 1 /\ gs[1].appid = 2}

LibrarySteps == {1, LibraryTtlMinutes * SecondsPerMinute - 1}

TickLibrary == Tick(LibrarySteps)

NextLibraryAge ==
    \/ \E u \in Users, k \in 2..(MaxLibrary + 1) : \E gs \in AgingInputs(u) :
          /\ k <= Len(gs) + 1
          /\ cacheUserLibrary(u, gs, k)
    \/ \E u \in Users : getCachedLibrary(u)
    \/ \E u \in Users : invalidateUserCache(u)
    \/ TickLibrary

SpecLibraryAge == Init /\ [][NextLibraryAge]_vars

----------------------------------------------------------------------------
(* The game details cache: the name column                                 *)

DetailNames == {"HL", "HL2", ""}

GameSteps == {1, GameTtlDays * SecondsPerDay - 1}

TickGame == Tick(GameSteps)

NextGameName ==
    \/ \E a \in AppIds, n \in DetailNames \cup {Null} :
          cacheGameDetails(a, [name |-> n, info |-> Details, genres |-> Absent],
                           Absent)
    \/ \E a \in AppIds : getCachedGameDetails(a)
    \/ TickGame

SpecGameName == Init /\ [][NextGameName]_vars

----------------------------------------------------------------------------
(* The game details cache: genres, tags and age.  Entity 1 takes every     *)
(* genre list and every list of distinct tags, entity 2 one fixed record.  *)

\* the tag lists that name no tag twice
DistinctTagInputs ==
    {t \in TagInputs :
        \A ts \in t : \A i, j \in DOMAIN ts : ts[i].tag = ts[j].tag => i = j}

GameCalls ==
    [appId : {1}, name : {"HL"}, genres : GenreInputs, tags : {Absent}]
        \cup [appId : {1}, name : {"HL"}, genres : {Given(<<"Action">>)},
              tags : DistinctTagInputs]
        \cup [appId : {2}, name : {"HL2"}, genres : {Given(<<"RPG">>)},
              tags : {Given(<<[tag |-> "Indie", rank |-> 2]>>)}]

NextGame ==
    \/ \E c \in GameCalls :
          cacheGameDetails(c.appId,
                           [name |-> c.name, info |-> Details, genres |-> c.genres],
                           c.tags)
    \/ \E a \in AppIds : getCachedGameDetails(a)
    \/ \E a \in AppIds : getGameTagsFromCache(a)
    \/ TickGame

SpecGame == Init /\ [][NextGame]_vars

----------------------------------------------------------------------------
(* The game details cache: statements that throw.  A genre description or  *)
(* a tag name that is undefined makes its insert throw after the earlier   *)
(* statements of the transaction have run; a null name makes the upsert    *)
(* throw.                                                                  *)

AtomicCalls ==
    [appId : {1}, name : {"HL", "HL2", Null},
     genres : {Given(<<"Action">>), Given(<<"RPG">>), Given(<<"RPG", Undefined>>)},
     tags : {Absent, Given(<<[tag |-> "Indie", rank |-> 1]>>),
             Given(<<[tag |-> "Roguelike", rank |-> 2],
                     [tag |-> Undefined, rank |-> 1]>>)}]
        \cup [appId : {2}, name : {"HL2"}, genres : {Given(<<"RPG">>)},
              tags : {Given(<<[tag |-> "Indie", rank |-> 2]>>)}]

NextGameAtomic ==
    \/ \E c \in AtomicCalls :
          cacheGameDetails(c.appId,
                           [name |-> c.name, info |-> Details, genres |-> c.genres],
                           c.tags)
    \/ \E a \in AppIds : getCachedGameDetails(a)
    \/ \E a \in AppIds : getGameTagsFromCache(a)

SpecGameAtomic == Init /\ [][NextGameAtomic]_vars

----------------------------------------------------------------------------
(* The recommendation cache: keys.  No clock: every row is unexpired.      *)

NextRecKey ==
    \/ \E u \in Users, s \in KeySources, t \in RecTypes :
          cacheRecommendation(u, s, t, "P1", 1)
    \/ \E u \in Users, s \in KeySources, t \in RecTypes :
          getCachedRecommendation(u, s, t)
    \/ \E u \in Users : invalidateUserCache(u)

SpecRecKey == Init /\ [][NextRecKey]_vars

----------------------------------------------------------------------------
(* The recommendation cache: expiry.  One user and one category, with and  *)
(* without a source entity, and rows of two lifetimes.                     *)

RecSteps == {1, SecondsPerHour}

TickRec == Tick(RecSteps)

NextRecTime ==
    \/ \E s \in KeySources, h \in TtlHours, p \in Payloads :
          cacheRecommendation("u1", s, "general", p, h)
    \/ \E s \in KeySources : getCachedRecommendation("u1", s, "general")
    \/ TickRec

SpecRecTime == Init /\ [][NextRecTime]_vars

----------------------------------------------------------------------------
(* The game statuses.  The first process finds any of the legacy files     *)
(* below; the user u1 sets and removes statuses, and processes restart.    *)

LegacyEntries ==
    {[steamId |-> "u1", appid |-> 1, name |-> "HL", status |-> "played",
      updatedAt |-> Given(0)],
     [steamId |-> "u1", appid |-> 1, name |-> "HL", status |-> "liked",
      updatedAt |-> Absent],
     [steamId |-> "u2", appid |-> 2, name |-> "HL2", status |-> "liked",
      updatedAt |-> Given(0)],
     [steamId |-> "u1", appid |-> 2, name |-> "HL2", status |-> "bogus",
      updatedAt |-> Given(0)],
     [steamId |-> "u1", appid |-> 2, name |-> Undefined, status |-> "played",
      updatedAt |-> Given(0)]}

MaxLegacy == 2

\* the records of one user are listed together
Grouped(es) ==
    \A i, j, k \in DOMAIN es :
        (i < j /\ j < k /\ es[i].steamId = es[k].steamId)
           => es[j].steamId = es[i].steamId

LegacyFiles ==
    {NoFile, CorruptFile}
        \cup {JsonFile(es) : es \in {x \in SeqsUpTo(LegacyEntries, MaxLegacy) : Grouped(x)}}

\* the data directory exists when it holds a legacy file
InitLegacy ==
    /\ InitStore
    /\ legacy \in LegacyFiles
    /\ disk = [NoStore EXCEPT !.dir = legacy # NoFile]

\* renameSync succeeds, or throws
RenameOutcomes == BOOLEAN

NextStatus ==
    \/ \E u \in Users, ok \in RenameOutcomes : getUserStatuses(u, ok)
    \/ \E a \in AppIds, ok \in RenameOutcomes :
          setGameStatus("u1", a, "HL", "not_interested", ok)
    \/ \E a \in AppIds, ok \in RenameOutcomes : removeGameStatus("u1", a, ok)
    \/ \E s \in Statuses, ok \in RenameOutcomes : getGamesByStatus("u1", s, ok)
    \/ \E ok \in RenameOutcomes : getStatusSummaryForPrompt("u1", ok)
    \/ Restart

SpecStatus == InitLegacy /\ [][NextStatus]_vars

----------------------------------------------------------------------------
(* Invalidation: every table holds rows of both users, and one user is     *)
(* invalidated.                                                            *)

NextInvalidate ==
    \/ \E u \in Users : cacheUserProfile(u, "Ann")
    \/ \E u \in Users :
          cacheUserLibrary(u, <<[appid |-> 1, name |-> "HL", playtime |-> 10]>>, 2)
    \/ cacheGameDetails(1, [name |-> "HL", info |-> Details,
                            genres |-> Given(<<"Action">>)],
                        Given(<<[tag |-> "Indie", rank |-> 1]>>))
    \/ \E u \in Users : cacheRecommendation(u, SqlNull, "general", "P1", 1)
    \/ \E u \in Users : recordRecommendationFeedback(u, 1, "dismissed")
    \/ \E u \in Users : setGameStatus(u, 1, "HL", "liked", TRUE)
    \/ \E u \in Users : invalidateUserCache(u)
    \/ \E u \in Users : getCachedProfile(u)
    \/ \E u \in Users : getCachedLibrary(u)
    \/ \E u \in Users : getCachedRecommendation(u, SqlNull, "general")
    \/ \E u \in Users : getDismissedAppIds(u)

SpecInvalidate == Init /\ [][NextInvalidate]_vars

----------------------------------------------------------------------------
(* The handle of the store: calls of getDb in which a statement may throw, *)
(* over the restarts of the process.                                       *)

\* the data directory may be there before the first process starts
InitDb ==
    /\ InitStore
    /\ legacy = NoFile
    /\ disk \in {NoStore, [NoStore EXCEPT !.dir = TRUE]}

NextDb ==
    \/ \E fault \in DbFaults : getDb(fault)
    \/ Restart

SpecDb == InitDb /\ [][NextDb]_vars

----------------------------------------------------------------------------
(* The reads: every table holds rows of the user u1 and of the entity 1,   *)
(* the clock passes every lifetime, and each accessor is called.           *)

ReadSteps == {GameTtlDays * SecondsPerDay}

TickReads == Tick(ReadSteps)

NextReads ==
    \/ cacheUserProfile("u1", "Ann")
    \/ cacheUserLibrary("u1", <<[appid |-> 1, name |-> "HL", playtime |-> 10]>>, 2)
    \/ cacheGameDetails(1, [name |-> "HL", info |-> Details,
                            genres |-> Given(<<"Action">>)],
                        Given(<<[tag |-> "Indie", rank |-> 1]>>))
    \/ cacheRecommendation("u1", SqlNull, "general", "P1", 1)
    \/ recordRecommendationFeedback("u1", 1, "dismissed")
    \/ getCachedProfile("u1")
    \/ getCachedLibrary("u1")
    \/ getCachedGameDetails(1)
    \/ getCachedRecommendation("u1", SqlNull, "general")
    \/ getGameTagsFromCache(1)
    \/ getDismissedAppIds("u1")
    \/ TickReads

SpecReads == Init /\ [][NextReads]_vars

----------------------------------------------------------------------------
(* The feedback: two users record every action on two entities and read    *)
(* their dismissed entities.                                               *)

NextFeedback ==
    \/ \E u \in Users, a \in AppIds, f \in FeedbackActions :
          recordRecommendationFeedback(u, a, f)
    \/ \E u \in Users : getDismissedAppIds(u)

SpecFeedback == Init /\ [][NextFeedback]_vars

----------------------------------------------------------------------------
(* The status operations: no legacy file; two users set, remove and read   *)
(* the statuses of two entities, over the restarts of the process.         *)

NextStatusOps ==
    \/ \E u \in Users, a \in AppIds, s \in Statuses :
          setGameStatus(u, a, "HL", s, TRUE)
    \/ \E u \in Users, a \in AppIds : removeGameStatus(u, a, TRUE)
    \/ \E u \in Users : getUserStatuses(u, TRUE)
    \/ \E u \in Users, s \in Statuses : getGamesByStatus(u, s, TRUE)
    \/ Restart

SpecStatusOps == Init /\ [][NextStatusOps]_vars

----------------------------------------------------------------------------
(* Requests that interleave: the library of u1 and the record of entity 1  *)
(* are written, with calls that throw among them, and read statement by    *)
(* statement; the first status accessor imports a legacy file.             *)

InterleavedSyncs ==
    {<<>>,
     <<[appid |-> 1, name |-> "HL", playtime |-> 10]>>,
     <<[appid |-> 1, name |-> "HL", playtime |-> 20],
       [appid |-> 2, name |-> "HL", playtime |-> 10]>>,
     <<[appid |-> 2, name |-> "HL", playtime |-> 10],
       [appid |-> 1, name |-> Null, playtime |-> 10]>>}

InterleavedCalls ==
    {[name |-> "HL", genres |-> Given(<<"Action">>),
      tags |-> Given(<<[tag |-> "Indie", rank |-> 1]>>)],
     [name |-> "HL2", genres |-> Given(<<"RPG">>),
      tags |-> Given(<<[tag |-> "Roguelike", rank |-> 2]>>)],
     [name |-> "HL2", genres |-> Given(<<"RPG", Undefined>>), tags |-> Absent]}

\* a file of two records that are imported, and one whose second record
\* the store rejects
InterleavedFiles ==
    {JsonFile(<<[steamId |-> "u1", appid |-> 1, name |-> "HL",
                 status |-> "played", updatedAt |-> Given(0)],
                [steamId |-> "u1", appid |-> 2, name |-> "HL2",
                 status |-> "liked", updatedAt |-> Given(0)]>>),
     JsonFile(<<[steamId |-> "u1", appid |-> 1, name |-> "HL",
                 status |-> "played", updatedAt |-> Given(0)],
                [steamId |-> "u1", appid |-> 2, name |-> "HL2",
                 status |-> "bogus", updatedAt |-> Given(0)]>>)}

InitInterleaved ==
    /\ InitStore
    /\ legacy \in InterleavedFiles
    /\ disk = [NoStore EXCEPT !.dir = TRUE]

NextInterleaved ==
    \/ \E gs \in InterleavedSyncs : Idle /\ cacheUserLibrary("u1", gs, Len(gs) + 1)
    \/ \E c \in InterleavedCalls :
          /\ Idle
          /\ cacheGameDetails(1, [name |-> c.name, info |-> Details,
                                  genres |-> c.genres], c.tags)
    \/ Idle /\ invalidateUserCache("u1")
    \/ Idle /\ getUserStatuses("u1", TRUE)
    \/ getCachedLibraryNewest("u1")
    \/ getCachedLibraryRows
    \/ getCachedGameDetailsRow(1)
    \/ getCachedGameDetailsGenres
    \/ getCachedGameDetailsTags

SpecInterleaved == InitInterleaved /\ [][NextInterleaved]_vars

----------------------------------------------------------------------------
(* Two requests of one user for the general recommendations, a later read  *)
(* of the key, and a clock that passes the lifetime of a row.              *)

RequestSteps == {1, GeneralTtlHours * SecondsPerHour}

TickRequests == Tick(RequestSteps)

NextRequests ==
    \/ \E q \in RequestIds : GETLookup(q, "u1")
    \/ \E q \in RequestIds, owned \in BOOLEAN : GETContext(q, "u1", owned)
    \/ \E q \in RequestIds : GETStore(q, "u1")
    \/ getCachedRecommendation("u1", SqlNull, "general")
    \/ TickRequests

SpecRequests == Init /\ [][NextRequests]_vars

----------------------------------------------------------------------------
(* The library and the game records together: the record of entity 1 is    *)
(* fetched, with a name or with an empty one; the user syncs libraries of  *)
(* named games, and the records are read as the clock advances.            *)

StubSyncs ==
    {gs \in LibraryInputs :
        \A i \in 1..Len(gs) : gs[i].name # Null /\ gs[i].playtime = 10}

NextStub ==
    \/ \E n \in {"HL2", ""} :
          cacheGameDetails(1, [name |-> n, info |-> Details,
                               genres |-> Given(<<"Action">>)], Absent)
    \/ \E gs \in StubSyncs : cacheUserLibrary("u1", gs, Len(gs) + 1)
    \/ \E a \in AppIds : getCachedGameDetails(a)
    \/ TickGame

SpecStub == Init /\ [][NextStub]_vars

----------------------------------------------------------------------------
(* The whole cache                                                         *)

Next ==
    \/ NextProfile
    \/ NextLibrary
    \/ NextLibraryAge
    \/ NextGameName
    \/ NextGame
    \/ NextGameAtomic
    \/ NextRecKey
    \/ NextRecTime
    \/ NextStatus
    \/ NextInvalidate
    \/ NextDb
    \/ NextReads
    \/ NextFeedback
    \/ NextStatusOps
    \/ NextInterleaved
    \/ NextRequests
    \/ NextStub

Spec == Init /\ [][Next]_vars

----------------------------------------------------------------------------
(* Properties                                                              *)

AppIdsOf(gs) == {gs[i].appid : i \in DOMAIN gs}

\* C1: a cacheUserLibrary that throws inside its transaction leaves the
\* user_games rows and the games rows exactly as they were before the call,
\* so getCachedLibrary answers for every user what it answered before.
C1_LibraryRollback ==
    [][(last'.op = "cacheUserLibrary" /\ last'.threw)
          => /\ user_games' = user_games
             /\ games' = games
             /\ \A u \in Users : SelectLibrary(u)' = SelectLibrary(u)]_vars

\* a sync of a user with a snapshot threw after it had inserted a row of an
\* app id the snapshot does not hold
C1_Witness ==
    /\ last.op = "cacheUserLibrary"
    /\ last.threw
    /\ UserGamesOf(user_games, last.steamId) # {}
    /\ last.written \ {r.app_id : r \in UserGamesOf(user_games, last.steamId)} # {}

\* C7: cacheUserProfile stamps the row with the time T of the call, and
\* getCachedProfile returns the stored row at every time before T + 24h and
\* nothing at T + 24h or later, when the row is still stored.
C7_ProfileWindow ==
    /\ last.op = "cacheUserProfile"
          => ProfileRow(last.steamId) =
                {[steam_id |-> last.steamId, display_name |-> last.displayName,
                  last_synced_at |-> last.at]}
    /\ last.op = "getCachedProfile"
          => /\ last.ret \subseteq ProfileRow(last.steamId)
             /\ \A r \in ProfileRow(last.steamId) :
                   IF last.at < r.last_synced_at + ProfileTtlHours * SecondsPerHour
                   THEN last.ret = {r}
                   ELSE last.ret = {}

\* a read at exactly T + 24h finds nothing although the row is stored
C7_Witness ==
    /\ last.op = "getCachedProfile"
    /\ last.ret = {}
    /\ \E r \in ProfileRow(last.steamId) :
          last.at = r.last_synced_at + ProfileTtlHours * SecondsPerHour

\* C9: getCachedLibrary(u) hits exactly when some user_games row of u was
\* synced less than 5 minutes before the read, and a hit returns every
\* user_games row of u, the older ones too.
C9_LibraryFreshness ==
    last.op = "getCachedLibrary"
       => LET rows == {r \in user_games : r.steam_id = last.steamId}
          IN /\ last.ret.hit
                   <=> \E r \in rows :
                          last.at - r.synced_at < LibraryTtlMinutes * SecondsPerMinute
             /\ last.ret.hit => last.ret.rows = rows
             /\ ~last.ret.hit => last.ret.rows = {}

\* a hit that returns a row which is 5 minutes old, beside a younger one,
\* while another user has rows
C9_Witness ==
    /\ last.op = "getCachedLibrary"
    /\ last.ret.hit
    /\ \E r \in last.ret.rows :
          last.at - r.synced_at >= LibraryTtlMinutes * SecondsPerMinute
    /\ \E r \in user_games : r.steam_id # last.steamId

\* C10: a cacheUserLibrary(u, games) that commits leaves for u exactly one
\* row per distinct appid of games, each with a playtime the call gave for
\* that appid, and leaves the rows of every other user as they were.
C10_LibraryReplace ==
    [][(last'.op = "cacheUserLibrary" /\ ~last'.threw)
          => LET u  == last'.steamId
                 gs == last'.games
                 rows == {r \in user_games' : r.steam_id = u}
             IN /\ {r.app_id : r \in rows} = AppIdsOf(gs)
                /\ Cardinality(rows) = Cardinality(AppIdsOf(gs))
                /\ \A r \in rows : \E i \in DOMAIN gs :
                      gs[i].appid = r.app_id /\ gs[i].playtime = r.playtime
                /\ {r \in user_games' : r.steam_id # u}
                      = {r \in user_games : r.steam_id # u}]_vars

\* a sync that dropped an app id of the previous snapshot and listed an app
\* id twice, while another user has rows
C10_Witness ==
    /\ last.op = "cacheUserLibrary"
    /\ ~last.threw
    /\ last.replaced \ AppIdsOf(last.games) # {}
    /\ Cardinality(AppIdsOf(last.games)) < Len(last.games)
    /\ \E r \in user_games : r.steam_id # last.steamId

\* C2: for an entity whose games row has a non-empty name, a cacheGameDetails
\* with the name "" leaves the stored name as it is, and one with a
\* non-empty name stores that name.
C2_NameProtection ==
    [][(last'.op = "cacheGameDetails" /\ ~last'.threw)
          => \A old \in GameRow(games, last'.appId) :
                (old.name # "" /\ old.name # Null)
                   => \A new \in GameRow(games', last'.appId) :
                         new.name = IF last'.details.name = ""
                                    THEN old.name
                                    ELSE last'.details.name]_vars

\* the key of a recommendations row is the key (u, s, t) of a call
SameKey(r, call) ==
    /\ r.steam_id = call.steamId
    /\ r.source_app_id = call.sourceAppId
    /\ r.rec_type = call.recType

\* C3: getCachedRecommendation(u, s, t) returns only a stored row of user u,
\* category t and source s, where a NULL s equals only a NULL source_app_id.
C3_KeyIsolation ==
    last.op = "getCachedRecommendation"
       => \A r \in last.ret : r \in recommendations /\ SameKey(r, last)

\* a read for a source entity finds nothing while the user has a row of that
\* category without a source, and a read without a source finds nothing
\* while the user has a row of that category for a source entity
C3_Witness ==
    /\ last.op = "getCachedRecommendation"
    /\ last.ret = {}
    /\ last.sourceAppId # SqlNull
    /\ \E r \in recommendations :
          /\ r.steam_id = last.steamId
          /\ r.rec_type = last.recType
          /\ r.source_app_id = SqlNull

\* C4: a read of its key made right after a cacheRecommendation returns the
\* row just written; and no read returns a row once now is past its
\* created_at + ttl_hours: such a read returns nothing or a newer row.
C4_RecommendationExpiry ==
    [][/\ (/\ last.op = "cacheRecommendation"
           /\ last'.op = "getCachedRecommendation"
           /\ last'.steamId = last.steamId
           /\ last'.sourceAppId = last.sourceAppId
           /\ last'.recType = last.recType)
             => \E r \in last'.ret : r.id = last.id
       /\ last'.op = "getCachedRecommendation"
             => \A x \in recommendations :
                   (SameKey(x, last') /\ now > x.expires_at)
                      => /\ x \notin last'.ret
                         /\ \A r \in last'.ret : r.created_at > x.created_at]_vars

\* C5: getCachedRecommendation returns nothing exactly when no row of the key
\* is unexpired, and otherwise an unexpired row of the key that no other
\* such row exceeds in created_at.
C5_LatestUnexpired ==
    last.op = "getCachedRecommendation"
       => LET live == {r \in recommendations :
                         SameKey(r, last) /\ r.expires_at > last.at}
          IN /\ last.ret = {} <=> live = {}
             /\ \A r \in last.ret :
                   r \in live /\ \A x \in live : x.created_at <= r.created_at

\* two unexpired rows of the key written at different times: the read
\* returns the later one
C5_Witness ==
    /\ last.op = "getCachedRecommendation"
    /\ \E r \in last.ret : \E x \in recommendations :
          /\ SameKey(x, last)
          /\ x.expires_at > last.at
          /\ x.created_at < r.created_at
          /\ x.result_json # r.result_json

\* C6: cacheRecommendation adds exactly one row, with a new id, and no step
\* removes or changes a recommendations row.
C6_AppendOnly ==
    [][/\ recommendations \subseteq recommendations'
       /\ IF last'.op = "cacheRecommendation"
          THEN /\ Cardinality(recommendations') = Cardinality(recommendations) + 1
               /\ \A r \in recommendations' \ recommendations :
                     \A x \in recommendations : x.id # r.id
          ELSE recommendations' = recommendations]_vars

\* two rows of one key are stored and invalidateUserCache ran for their user
C6_Witness ==
    /\ last.op = "invalidateUserCache"
    /\ \E r, x \in recommendations :
          /\ r.id # x.id
          /\ r.steam_id = last.steamId
          /\ x.steam_id = r.steam_id
          /\ x.source_app_id = r.source_app_id
          /\ x.rec_type = r.rec_type

\* C8: getCachedGameDetails(id) hits exactly when the games row of id was
\* fetched less than 7 days before the read, and a hit carries that row, the
\* genres stored for id and the tags stored for id, by ascending rank.
C8_GameDetailsRead ==
    last.op = "getCachedGameDetails"
       => LET fresh == {r \in games :
                          /\ r.app_id = last.appId
                          /\ last.at - r.last_fetched_at < GameTtlDays * SecondsPerDay}
          IN /\ last.ret = {} <=> fresh = {}
             /\ \A d \in last.ret :
                   /\ d.row \in fresh
                   /\ d.genres = {g.genre : g \in {x \in game_genres :
                                                      x.app_id = last.appId}}
                   /\ {d.tags[i] : i \in DOMAIN d.tags}
                         = {[tag |-> t.tag, rank |-> t.rank] :
                              t \in {x \in game_tags : x.app_id = last.appId}}
                   /\ Len(d.tags) = Cardinality({x \in game_tags : x.app_id = last.appId})
                   /\ \A i, j \in DOMAIN d.tags :
                         i < j => d.tags[i].rank <= d.tags[j].rank

\* a hit with a genre and two tags of different ranks, while another entity
\* has genres and tags
C8_Witness ==
    /\ last.op = "getCachedGameDetails"
    /\ \E d \in last.ret :
          /\ d.genres # {}
          /\ Len(d.tags) = 2
          /\ d.tags[1].rank < d.tags[2].rank
    /\ \E g \in game_genres : g.app_id # last.appId
    /\ \E t \in game_tags : t.app_id # last.appId

\* a miss at exactly 7 days although the row is stored
C8_WitnessStale ==
    /\ last.op = "getCachedGameDetails"
    /\ last.ret = {}
    /\ \E r \in games :
          /\ r.app_id = last.appId
          /\ last.at - r.last_fetched_at = GameTtlDays * SecondsPerDay

\* the rows of a tag list, as (tag, rank) pairs
TagsOf(ts) == {ts[i] : i \in DOMAIN ts}

\* C11: after a cacheGameDetails that was given a tags argument, the tags
\* stored for the entity are exactly the tags of the call, and
\* getCachedGameDetails and getGameTagsFromCache list the stored tags by
\* ascending rank.
C11_TagsReplace ==
    [][/\ (last'.op = "cacheGameDetails" /\ ~last'.threw /\ last'.tags # Absent)
             => \A ts \in last'.tags :
                   {[tag |-> r.tag, rank |-> r.rank] :
                      r \in {x \in game_tags' : x.app_id = last'.appId}} = TagsOf(ts)
       /\ last'.op = "getGameTagsFromCache"
             => /\ TagsOf(last'.ret) = TagRows(last'.appId)
                /\ \A i, j \in DOMAIN last'.ret :
                      i < j => last'.ret[i].rank <= last'.ret[j].rank
       /\ last'.op = "getCachedGameDetails"
             => \A d \in last'.ret :
                   /\ TagsOf(d.tags) = TagRows(last'.appId)
                   /\ \A i, j \in DOMAIN d.tags :
                         i < j => d.tags[i].rank <= d.tags[j].rank]_vars

\* the genre descriptions of a call: none when details.genres is absent
GenresOf(genres) == UNION {{gs[i] : i \in DOMAIN gs} : gs \in genres}

\* C12: after a cacheGameDetails(id, details) that commits, the game_genres
\* rows of id are exactly the genre descriptions of details.genres (none when
\* genres is absent or empty), and the rows of every other entity are as
\* they were.
C12_GenresReplace ==
    [][(last'.op = "cacheGameDetails" /\ ~last'.threw)
          => /\ {r.genre : r \in {x \in game_genres' : x.app_id = last'.appId}}
                   = GenresOf(last'.details.genres)
             /\ {x \in game_genres' : x.app_id # last'.appId}
                   = {x \in game_genres : x.app_id # last'.appId}]_vars

\* a write with one genre removed the genre an earlier write had stored,
\* while another entity has a genre
C12_Witness ==
    /\ last.op = "cacheGameDetails"
    /\ ~last.threw
    /\ GenresOf(last.details.genres) # {}
    /\ last.had.genres \ GenresOf(last.details.genres) # {}
    /\ SelectGenres(last.appId) = GenresOf(last.details.genres)
    /\ \E g \in game_genres : g.app_id # last.appId

\* C13: a cacheGameDetails in which a statement throws leaves the games row,
\* the game_genres rows and the game_tags rows as they were before the call;
\* one that commits has written the games row, replaced the genres and,
\* for a non-empty tags argument, replaced the tags.
C13_GameDetailsAtomic ==
    [][last'.op = "cacheGameDetails"
          => IF last'.threw
             THEN /\ games' = games
                  /\ game_genres' = game_genres
                  /\ game_tags' = game_tags
             ELSE LET id == last'.appId
                  IN /\ GameRow(games', id)
                           = {[app_id |-> id, name |-> last'.details.name,
                               details |-> last'.details.info,
                               last_fetched_at |-> now]}
                     /\ {r.genre : r \in {x \in game_genres' : x.app_id = id}}
                           = GenresOf(last'.details.genres)
                     /\ \A ts \in last'.tags :
                           Len(ts) > 0
                              => {r.tag : r \in {x \in game_tags' : x.app_id = id}}
                                    = {ts[i].tag : i \in DOMAIN ts}]_vars

\* the insert of a tag threw after the transaction had changed the games
\* row, the genres and the tags of an entity that had all three stored
C13_Witness ==
    /\ last.op = "cacheGameDetails"
    /\ last.threw
    /\ last.written.games
    /\ last.written.game_genres
    /\ last.written.game_tags
    /\ GameRow(games, last.appId) # {}
    /\ SelectGenres(last.appId) # {}
    /\ TagRows(last.appId) # {}

\* the exported accessors of the game statuses
StatusOps == {"getUserStatuses", "setGameStatus", "removeGameStatus",
              "getGamesByStatus", "getStatusSummaryForPrompt"}

\* the rows of a table other than the row a setGameStatus or removeGameStatus
\* call names; every row for the other accessors
OtherStatusRows(table, call) ==
    IF call.op \in {"setGameStatus", "removeGameStatus"}
    THEN {r \in table : ~(r.steam_id = call.steamId /\ r.app_id = call.appid)}
    ELSE table

\* C14: in a process where ensureMigrated has run, a further accessor call
\* runs no migration: it leaves the legacy file and the .bak file as they
\* are and changes no game_statuses row but the one the accessor itself
\* writes; and game_statuses never holds two rows of one (steam_id, app_id).
C14_MigrateOncePerProcess ==
    [][/\ (last'.op \in StatusOps /\ migrated)
             => /\ last'.migration = "skipped"
                /\ legacy' = legacy
                /\ bak' = bak
                /\ commits' = commits
                /\ OtherStatusRows(game_statuses', last')
                      = OtherStatusRows(game_statuses, last')
       /\ \A r, x \in game_statuses' :
             (r.steam_id = x.steam_id /\ r.app_id = x.app_id) => r = x]_vars

\* a second call in a process whose migration committed the two records of
\* one (steam_id, app_id) and could not rename the file: the file is there
\* and is not loaded again
C14_Witness ==
    /\ last.op \in StatusOps
    /\ last.migration = "skipped"
    /\ commits = 1
    /\ legacy.state = "json"
    /\ Len(legacy.entries) = 2
    /\ legacy.entries[1].appid = legacy.entries[2].appid
    /\ legacy.entries[1].steamId = legacy.entries[2].steamId
    /\ game_statuses # {}

\* C15: when the first accessor of a process finds a legacy file that does
\* not parse, the exception is caught and the accessor runs its statement;
\* the file stays under its name, no .bak file appears and no game_statuses
\* row changes but the one the accessor itself writes.
C15_CorruptFileKept ==
    [][(last'.op \in StatusOps /\ ~migrated /\ legacy = CorruptFile)
          => /\ last'.migration = "failed"
             /\ legacy' = CorruptFile
             /\ bak' = bak
             /\ commits' = commits
             /\ OtherStatusRows(game_statuses', last')
                   = OtherStatusRows(game_statuses, last')
             /\ last'.op = "setGameStatus"
                   => \E r \in game_statuses' :
                         /\ r.steam_id = last'.steamId
                         /\ r.app_id = last'.appid
                         /\ r.status = last'.ret.status
             /\ last'.op = "getUserStatuses"
                   => last'.ret = StatusRowsOf(game_statuses, last'.steamId)]_vars

\* the second process, too, found the unparsable file: its first accessor
\* read the statuses that the first process had set
C15_Witness ==
    /\ last.op = "getGamesByStatus"
    /\ last.migration = "failed"
    /\ legacy = CorruptFile
    /\ bak = NoFile
    /\ pid = 2
    /\ last.ret # {}

\* a migration that discards the records whose insert throws and loads the
\* others
RECURSIVE MigrateValid(_, _, _)
MigrateValid(st, es, i) ==
    IF i > Len(es) THEN st
    ELSE IF InsertStatusThrows(es[i]) THEN MigrateValid(st, es, i + 1)
    ELSE MigrateValid([st EXCEPT !.game_statuses =
                          InsertOrReplaceStatus(@, es[i].steamId, es[i])],
                      es, i + 1)

\* C16: when the first accessor of a process finds a legacy file that
\* parses, the migration commits every record of the file that is valid
\* and discards the invalid ones only.
C16_ValidRecordsKept ==
    [][(/\ last'.op \in {"getUserStatuses", "getGamesByStatus",
                         "getStatusSummaryForPrompt"}
        /\ ~migrated
        /\ legacy.state = "json")
          => game_statuses' =
                MigrateValid([game_statuses |-> game_statuses], legacy.entries, 1)
                   .game_statuses]_vars

\* a record game_statuses accepts
ValidRecord(e) == e.name \notin {Null, Undefined} /\ e.status \in Statuses

\* the records of a file that no later record of the file replaces
LastRecords(es) ==
    {es[i] : i \in {k \in DOMAIN es :
                      \A j \in DOMAIN es :
                         (j > k /\ es[j].steamId = es[k].steamId)
                            => es[j].appid # es[k].appid}}

\* C17: when the first accessor of a process finds a legacy file whose
\* records are all valid, the migration commits one transaction that
\* inserts or replaces every record of the file, and renames the file to
\* .bak after the commit (when renameSync succeeds); a file is never renamed
\* unless its transaction committed, and a transaction that does not commit
\* writes nothing.
C17_RenameAfterCommit ==
    [][(last'.op \in StatusOps /\ ~migrated /\ legacy.state = "json")
          => LET es == legacy.entries
                 committed == commits' = commits + 1
                 mine(r) == /\ last'.op \in {"setGameStatus", "removeGameStatus"}
                            /\ r.steamId = last'.steamId
                            /\ r.appid = last'.appid
             IN /\ committed <=> \A i \in DOMAIN es : ValidRecord(es[i])
                /\ committed
                      => /\ \A e \in LastRecords(es) :
                               mine(e) \/ \E r \in game_statuses' :
                                             /\ r.steam_id = e.steamId
                                             /\ r.app_id = e.appid
                                             /\ r.name = e.name
                                             /\ r.status = e.status
                         /\ last'.migration \in {"done", "unrenamed"}
                         /\ last'.migration = "done"
                               => legacy' = NoFile /\ bak' = legacy
                         /\ last'.migration = "unrenamed"
                               => legacy' = legacy /\ bak' = bak
                /\ ~committed
                      => /\ commits' = commits
                         /\ last'.migration = "failed"
                         /\ legacy' = legacy
                         /\ bak' = bak
                         /\ OtherStatusRows(game_statuses', last')
                               = OtherStatusRows(game_statuses, last')]_vars

\* the migration of a file with a record of each user committed and the
\* file was renamed: both records are stored and the file is the .bak file
C17_Witness ==
    /\ last.op = "getUserStatuses"
    /\ last.migration = "done"
    /\ last.ret # {}
    /\ legacy = NoFile
    /\ bak.state = "json"
    /\ Len(bak.entries) = 2
    /\ bak.entries[1].steamId # bak.entries[2].steamId
    /\ Cardinality(game_statuses) = 2
    /\ commits = 1

\* C18: every accessor of the game statuses runs ensureMigrated before its
\* statement: after an accessor the flag is set, the first accessor of a
\* process has made the migration attempt, and what the accessor reads or
\* writes is the table the migration left.
C18_MigrationBeforeAccess ==
    [][last'.op \in StatusOps
          => /\ migrated'
             /\ ~migrated => last'.migration \in {"absent", "failed", "done", "unrenamed"}
             /\ last'.op = "getUserStatuses"
                   => last'.ret = StatusRowsOf(game_statuses', last'.steamId)
             /\ last'.op = "getGamesByStatus"
                   => last'.ret = {r \in StatusRowsOf(game_statuses', last'.steamId) :
                                     r.status = last'.status}
             /\ last'.op = "getStatusSummaryForPrompt"
                   => last'.ret.played \cup last'.ret.liked \cup last'.ret.notInterested
                         = {[name |-> r.name, appid |-> r.app_id] :
                              r \in StatusRowsOf(game_statuses', last'.steamId)}
             /\ last'.op = "setGameStatus"
                   => {r.status : r \in {x \in game_statuses' :
                                            /\ x.steam_id = last'.steamId
                                            /\ x.app_id = last'.appid}}
                         = {last'.ret.status}
             /\ last'.op = "removeGameStatus"
                   => ~\E r \in game_statuses' :
                          r.steam_id = last'.steamId /\ r.app_id = last'.appid]_vars

\* the first accessor of a process removed a status that the migration of
\* that same call had loaded from the legacy file
C18_Witness ==
    /\ last.op = "removeGameStatus"
    /\ last.ret
    /\ last.migration = "done"
    /\ pid = 1
    /\ \E i \in DOMAIN bak.entries :
          /\ bak.entries[i].steamId = last.steamId
          /\ bak.entries[i].appid = last.appid
    /\ ~\E r \in game_statuses : r.steam_id = last.steamId /\ r.app_id = last.appid

\* C19: once a transaction of the migration has committed the records of
\* the legacy file, no later accessor call, of this process or of a later
\* one, loads the legacy records again: the only row of game_statuses that
\* a call changes is the one a setGameStatus or a removeGameStatus names.
C19_LegacyConsumedOnce ==
    [][commits >= 1
          => OtherStatusRows(game_statuses', last')
                = OtherStatusRows(game_statuses, last')]_vars

\* C20: invalidateUserCache(u) removes the user_profiles row and every
\* user_games row of u, so that a getCachedProfile(u) or getCachedLibrary(u)
\* that follows finds nothing, and it changes no row of another user and no
\* row of games, game_genres, game_tags, recommendations,
\* recommendation_feedback and game_statuses.
C20_InvalidateFrame ==
    [][/\ last'.op = "invalidateUserCache"
             => LET u == last'.steamId
                IN /\ user_profiles' = {r \in user_profiles : r.steam_id # u}
                   /\ user_games' = {r \in user_games : r.steam_id # u}
                   /\ games' = games
                   /\ game_genres' = game_genres
                   /\ game_tags' = game_tags
                   /\ recommendations' = recommendations
                   /\ recommendation_feedback' = recommendation_feedback
                   /\ game_statuses' = game_statuses
       /\ (/\ last.op = "invalidateUserCache"
           /\ last'.op = "getCachedProfile"
           /\ last'.steamId = last.steamId) => last'.ret = {}
       /\ (/\ last.op = "invalidateUserCache"
           /\ last'.op = "getCachedLibrary"
           /\ last'.steamId = last.steamId) => ~last'.ret.hit]_vars

\* a user who had a profile, a library, a recommendation, a feedback and a
\* status was invalidated, while the other user has a profile and a library
\* and an entity has its metadata, a genre and a tag
C20_Witness ==
    /\ last.op = "invalidateUserCache"
    /\ last.removed.user_profiles
    /\ last.removed.user_games
    /\ \E r \in user_profiles : r.steam_id # last.steamId
    /\ \E r \in user_games : r.steam_id # last.steamId
    /\ \E r \in recommendations : r.steam_id = last.steamId
    /\ \E r \in recommendation_feedback : r.steam_id = last.steamId
    /\ \E r \in game_statuses : r.steam_id = last.steamId
    /\ games # {}
    /\ game_genres # {}
    /\ game_tags # {}

\* C21: once the variable db holds a handle, every later getDb of the
\* process returns that handle and runs nothing of the initialization: no
\* directory creation, no open, no pragma, no schema creation.
C21_GetDbOnce ==
    [][(last'.op = "getDb" /\ db.open)
          => /\ ~last'.threw
             /\ last'.ran = {}
             /\ db' = db
             /\ disk' = disk]_vars

\* a later call, after a call that ran the whole initialization, returned
\* the handle with everything enabled and ran nothing
C21_Witness ==
    /\ last.op = "getDb"
    /\ last.opened
    /\ last.ran = {}
    /\ last.fault = "exec"
    /\ last.ret = {[foreign_keys |-> TRUE, wal |-> TRUE, schema |-> TRUE]}

\* C30: every handle that getDb returns has write-ahead mode and foreign-key
\* enforcement enabled and the tables created, also after an earlier getDb
\* of the process threw during the initialization.
C30_HandleInitialized ==
    last.op = "getDb"
       => \A h \in last.ret : h.wal /\ h.foreign_keys /\ h.schema

\* C22: the row that cacheRecommendation writes with a positive ttlHours has
\* created_at = now and expires_at = created_at + ttlHours hours, so that
\* expires_at is later than created_at in every recommendations row.
C22_ExpiresAfterCreated ==
    [][/\ last'.op = "cacheRecommendation"
             => \A r \in recommendations' \ recommendations :
                   /\ r.id = last'.id
                   /\ r.created_at = now
                   /\ r.expires_at = r.created_at + last'.ttlHours * SecondsPerHour
       /\ \A r \in recommendations' : r.expires_at > r.created_at]_vars

\* a row written with two hours to live after the clock had advanced,
\* beside a row of the same key with one hour to live
C22_Witness ==
    /\ last.op = "cacheRecommendation"
    /\ last.ttlHours = 2
    /\ now > 0
    /\ \E r, x \in recommendations :
          /\ r.id = last.id
          /\ r.created_at = now
          /\ r.expires_at = now + 2 * SecondsPerHour
          /\ x.id # r.id
          /\ SameKey(x, last)
          /\ x.expires_at = x.created_at + SecondsPerHour

\* the accessors that read the cache
ReadOps == {"getCachedProfile", "getCachedLibrary", "getCachedGameDetails",
            "getCachedRecommendation", "getGameTagsFromCache",
            "getDismissedAppIds"}

\* C23: a read accessor inserts, updates and deletes nothing: every table is
\* after the read as it was before it, so the rows that the read found
\* stale are still stored, unchanged.
C23_ReadsDoNotWrite ==
    [][last'.op \in ReadOps
          => /\ tables' = tables
             /\ recommendation_feedback' = recommendation_feedback
             /\ game_statuses' = game_statuses]_vars

\* a profile read that returned nothing while the profile, the library, the
\* game record and a recommendation of the user, all stale, are stored
C23_Witness ==
    /\ last.op = "getCachedProfile"
    /\ last.ret = {}
    /\ \E r \in ProfileRow(last.steamId) : ~ProfileFresh(r)
    /\ \E r \in UserGamesOf(user_games, last.steamId) : ~LibraryFresh(r)
    /\ \E r \in games : ~GameFresh(r)
    /\ \E r \in recommendations : r.steam_id = last.steamId /\ ~(r.expires_at > now)

\* C24: recommendation_feedback holds at most one row per user and entity;
\* recordRecommendationFeedback leaves for its pair the one row of the
\* action recorded and leaves the other pairs' rows alone, so the row
\* carries the latest action; getDismissedAppIds returns exactly the
\* entities of the user whose row says dismissed.
C24_LatestFeedbackWins ==
    [][/\ \A r, x \in recommendation_feedback' :
             r.steam_id = x.steam_id /\ r.recommended_app_id = x.recommended_app_id
                => r = x
       /\ last'.op = "recordRecommendationFeedback"
             => /\ \A r \in recommendation_feedback' :
                      r.steam_id = last'.steamId
                         /\ r.recommended_app_id = last'.recommendedAppId
                      => r.action = last'.action
                /\ \E r \in recommendation_feedback' :
                      /\ r.steam_id = last'.steamId
                      /\ r.recommended_app_id = last'.recommendedAppId
                /\ \A u \in Users, a \in AppIds :
                      <<u, a>> # <<last'.steamId, last'.recommendedAppId>>
                         => {r \in recommendation_feedback' :
                                r.steam_id = u /\ r.recommended_app_id = a}
                              = FeedbackRows(u, a)
       /\ last'.op # "recordRecommendationFeedback"
             => recommendation_feedback' = recommendation_feedback
       /\ last'.op = "getDismissedAppIds"
             => last'.ret = {a \in AppIds :
                               \E r \in FeedbackRows(last'.steamId, a) :
                                  r.action = "dismissed"}]_vars

\* an entity that was dismissed has been saved, the user's other entity is
\* still dismissed, and the other user has dismissed the entity saved
C24_Witness ==
    /\ last.op = "recordRecommendationFeedback"
    /\ last.was = {"dismissed"}
    /\ last.action = "saved"
    /\ \A r \in FeedbackRows(last.steamId, last.recommendedAppId) : r.action = "saved"
    /\ \E a \in AppIds \ {last.recommendedAppId} :
          \E r \in FeedbackRows(last.steamId, a) : r.action = "dismissed"
    /\ \E u \in Users \ {last.steamId} :
          \E r \in FeedbackRows(u, last.recommendedAppId) : r.action = "dismissed"

\* the rows of one user and one entity
StatusRowsAt(table, steamId, appid) ==
    {r \in table : r.steam_id = steamId /\ r.app_id = appid}

C26_ReadsSeeWholeWrites ==
    [][/\ reading # NoCall => tables' = tables /\ game_statuses' = game_statuses
       /\ (last'.op = "getCachedLibrary" /\ last'.ret.hit)
             => /\ last'.ret.rows = UserGamesOf(user_games', last'.steamId)
                /\ last'.ret.rows # {}
       /\ last'.op = "getCachedGameDetails"
             => \A x \in last'.ret :
                   /\ x.row \in GameRow(games, last'.appId)
                   /\ x.genres = SelectGenres(last'.appId)
                   /\ x.tags \in OrderByRank(TagRows(last'.appId))
       /\ (last'.op \in {"cacheUserLibrary", "cacheGameDetails"} /\ last'.threw)
             => tables' = tables
       /\ last'.op = "getUserStatuses"
             => /\ last'.ret = StatusRowsOf(game_statuses', last'.steamId)
                /\ last'.migration \in {"done", "unrenamed"}
                      => \A i \in DOMAIN legacy.entries :
                            \E r \in game_statuses' :
                               /\ r.steam_id = legacy.entries[i].steamId
                               /\ r.app_id = legacy.entries[i].appid
                               /\ r.status = legacy.entries[i].status
                /\ last'.migration \notin {"done", "unrenamed"}
                      => game_statuses' = game_statuses]_vars

\* a read of game details has returned a record that an earlier write had
\* replaced whole: the name, the genre and the tag of the second write
C26_Witness ==
    /\ last.op = "getCachedGameDetails"
    /\ \E x \in last.ret :
          /\ x.row.name = "HL2"
          /\ x.genres = {"RPG"}
          /\ x.tags = <<[tag |-> "Roguelike", rank |-> 2]>>
    /\ \E r \in UserGamesOf(user_games, "u1") : r.app_id = 2
    /\ game_statuses # {}

\* the requests that missed the cache and stored what they generated
Stored == {q \in RequestIds : requests[q].pc = "done" /\ requests[q].stored # 0}

\* the row a request stored
StoredRow(q) == {r \in recommendations : r.id = requests[q].stored}

\* C27: requests of one key that both miss the cache both store a row of
\* their own: the store of a request adds one row and changes no other, the
\* rows of the two requests are two rows with the payload each generated,
\* and a later read of the key returns, whole, an unexpired row that no
\* other unexpired row of the key is later than.
C27_ConcurrentRegenerate ==
    [][/\ (last'.op = "GET" /\ last'.step = "store")
             => /\ recommendations \subseteq recommendations'
                /\ \E r \in recommendations' \ recommendations :
                      /\ recommendations' = recommendations \cup {r}
                      /\ r.result_json = Generated(last'.q)
                      /\ r.steam_id = last'.steamId
                      /\ r.created_at = now
                      /\ \A x \in recommendations : x.id # r.id
       /\ \A q \in Stored :
             \E r \in StoredRow(q) : r.result_json = Generated(q)
       /\ \A p, q \in Stored : p # q => StoredRow(p) # StoredRow(q)
       /\ last'.op = "getCachedRecommendation"
             => LET live == {r \in recommendations :
                               /\ r.steam_id = last'.steamId
                               /\ r.source_app_id = last'.sourceAppId
                               /\ r.rec_type = last'.recType
                               /\ r.expires_at > now}
                IN /\ last'.ret = {} <=> live = {}
                   /\ \A r \in last'.ret :
                         /\ r \in live
                         /\ \A x \in live : x.created_at <= r.created_at]_vars

\* both requests missed and stored, the second a tick after the first, and
\* a later read returned the payload of the second
C27_Witness ==
    /\ Stored = RequestIds
    /\ last.op = "getCachedRecommendation"
    /\ \E p, q \in RequestIds : \E x \in StoredRow(p), r \in StoredRow(q) :
          /\ x.created_at < r.created_at
          /\ x.expires_at > now
          /\ last.ret = {r}
          /\ r.result_json = Generated(q)
          /\ x.result_json = Generated(p)
          /\ x.result_json # r.result_json

\* the name of the first game of a library that has the app id
LibraryName(gs, appId) ==
    gs[CHOOSE i \in DOMAIN gs :
          /\ gs[i].appid = appId
          /\ \A j \in DOMAIN gs : gs[j].appid = appId => i <= j].name

\* C28: cacheUserLibrary leaves a games row that exists as it is, but for a
\* name that is empty, which becomes the library's name: a name that is not
\* empty, the other metadata columns and last_fetched_at stay, and so do
\* the genres and the tags.
C28_SyncKeepsKnownGames ==
    [][(last'.op = "cacheUserLibrary" /\ ~last'.threw)
          => /\ game_genres' = game_genres
             /\ game_tags' = game_tags
             /\ \A r \in games :
                   \E x \in GameRow(games', r.app_id) :
                      /\ GameRow(games', r.app_id) = {x}
                      /\ x.details = r.details
                      /\ x.last_fetched_at = r.last_fetched_at
                      /\ x.name = IF r.name = ""
                                     /\ r.app_id \in AppIdsOf(last'.games)
                                  THEN LibraryName(last'.games, r.app_id)
                                  ELSE r.name]_vars

\* a sync, made after the clock had advanced, has named the fetched record
\* of entity 1, whose name was empty, and has left a named record alone
C28_Witness ==
    /\ last.op = "cacheUserLibrary"
    /\ ~last.threw
    /\ 1 \in AppIdsOf(last.games)
    /\ \E r \in GameRow(games, 1) :
          /\ r.name = "HL"
          /\ r.details = Details
          /\ r.last_fetched_at < now
    /\ SelectGenres(1) = {"Action"}

\* C29: getCachedGameDetails returns only records that cacheGameDetails
\* wrote: never a row that holds a name and nothing else.
C29_NoStubServed ==
    last.op = "getCachedGameDetails"
       => \A x \in last.ret : x.row.details # NoDetails

====
